---- MODULE Spec2Model ----
(***************************************************************************)
(* Token/session manager of sa-token-go (core/manager/manager.go) over the *)
(* in-memory storage backend (storage/memory/memory.go).                   *)
(*                                                                         *)
(* Time is the Unix clock in seconds.  Every storage call is atomic (the   *)
(* backend holds its mutex for the whole call).                            *)
(*                                                                         *)
(* Spec:      a foreground call of the manager runs without interleaving;  *)
(*            the renewal goroutine that IsLogin starts runs in three      *)
(*            separate steps (Expire, getTokenInfo, saveTokenInfo) that    *)
(*            interleave with everything else; hist records what happened  *)
(*            to each token.                                               *)
(* SpecSeq:   as Spec, but a call is made only when no renewal goroutine   *)
(*            is half-way (the calls "run alone").                         *)
(* SpecLogin: Login is split at its storage calls (the three session       *)
(*            writes are one step), so that several Login calls overlap.   *)
(*                                                                         *)
(* Manager.Disable is not among the modelled calls: the disable key is     *)
(* never present and Login's IsDisable test always passes.                 *)
(***************************************************************************)
EXTENDS Integers, FiniteSets, Sequences, Bags, TLC

VARIABLES
    now,        \* time.Now().Unix()
    data,       \* Storage.data: key -> item (value, expiration)
    config,     \* Manager.config, fixed at construction
    nextTok,    \* number of tokens the generator has produced
    renewals,   \* bag of renewal goroutines started by IsLogin, not yet finished
    logins,     \* bag of calls in progress: Login (SpecLogin), Session.Set (SpecSession)
    ret,        \* the foreground call made by the step just taken, and what it returned
    hist,       \* history of each issued token (not program state)
    nm,         \* the NonceManager and the Verify calls in progress
    oa          \* the OAuth2Server and the calls on it in progress

vars == <<now, data, config, nextTok, renewals, logins, ret, hist, nm, oa>>

\* ------------------------------------------------------------------ bounds

MaxTime == 2
MaxTokens == 2
MaxRenew == 1
MaxLogins == 2
MaxNonces == 1
MaxVerify == 2
MaxCodes == 1
MaxPairs == 2
MaxExchanges == 2
MaxLen == 3
MaxSets == 2

\* ------------------------------------------------------------------ inputs

LoginIDs == {"u1"}
Devices == {"default"}
TimeoutValues == {0, 1}
ActiveTimeoutValues == {-1, 1}
DeviceArgs == {<<>>, <<"web">>}
Tags == {"x"}
NonceTTLs == {1}
ClientIDs == {"c1", "c2"}
ClientArgs == ClientIDs \cup {"c0"}
SecretArgs == {"secret:c1", "secret:c2"}
RedirectArgs == {"https://c1", "https://c2", "https://c1/x"}
UserIDs == {"u1"}
ScopeLists == {<<"read">>}
ScopeArgs == {<<"read">>, <<"read", "write">>}
DisableDurations == {0, 1}
PermissionLists == {<<"user:add">>}
RoleLists == {<<"admin">>}

\* Permission strings are sequences of characters, so that the matcher can look
\* inside them.
Alphabet == {"a", ":", "*"}
Strings == UNION {[1..n -> Alphabet] : n \in 0..MaxLen}
ChosenPatterns == {<<"*">>, <<"a", ":", "*">>, <<"a", ":", "*", ":", "a">>, <<"a">>}
PatternLists ==
    {<<>>} \cup {<<p>> : p \in Strings \cup ChosenPatterns}
           \cup {<<p, q>> : p, q \in ChosenPatterns}
ChosenQueries == {<<"a">>, <<"a", ":", "a">>, <<"a", ":", "a", ":", "a">>}
QueryLists == {<<>>} \cup {<<p>> : p \in ChosenQueries} \cup {<<p, q>> : p, q \in ChosenQueries}
RoleArgs == {"admin", "user", "*"}
RoleArgLists == {<<>>} \cup {<<r>> : r \in RoleArgs} \cup {<<r, q>> : r, q \in RoleArgs}
QueryLoginIDs == LoginIDs \cup {"u2"}
CustomKeys == {"k"}
kickoutCalls == {"Get", "DeleteToken"}
LoginCalls == kickoutCalls \cup {"Generate", "SetToken", "SetAccount", "SetSession"}
LogoutCalls == {"Get", "DeleteToken", "DeleteAccount"}
LogoutByTokenCalls == {"DeleteToken"}
CustomValues == {"v1", "v2"}
ColonLoginIDs == {"a", "a:b"}
KeyArgs == {"k1", "k2"}
StorageTTLs == {0, 1}
KeyPatterns == {"", "*", "k1", "k*", "*2", "k*1"}

Token(n) == "t" \o ToString(n)
Issued == {Token(n) : n \in 1..nextTok}

\* ------------------------------------------------------------------ package strings

HasPrefix(str, pre) == Len(str) >= Len(pre) /\ SubSeq(str, 1, Len(pre)) = pre

HasSuffix(str, suffix) ==
    Len(str) >= Len(suffix) /\ SubSeq(str, Len(str) - Len(suffix) + 1, Len(str)) = suffix

TrimPrefix(str, pre) ==
    IF HasPrefix(str, pre) THEN SubSeq(str, Len(pre) + 1, Len(str)) ELSE str

TrimSuffix(str, suffix) ==
    IF HasSuffix(str, suffix) THEN SubSeq(str, 1, Len(str) - Len(suffix)) ELSE str

\* the start of the first occurrence of substr in str, 0 when there is none
Index(str, substr) ==
    LET at == {i \in 1..(Len(str) - Len(substr) + 1) :
                  SubSeq(str, i, i + Len(substr) - 1) = substr}
    IN  IF at = {} THEN 0 ELSE CHOOSE i \in at : \A j \in at : i <= j

Contains(str, substr) == Index(str, substr) # 0

\* strings.Split for a separator that is not empty
RECURSIVE Split(_, _)
Split(str, sep) ==
    LET i == Index(str, sep)
    IN  IF i = 0 THEN <<str>>
        ELSE <<SubSeq(str, 1, i - 1)>> \o Split(SubSeq(str, i + Len(sep), Len(str)), sep)

\* ------------------------------------------------------------------ storage/memory

Nil == [nil |-> TRUE]

isExpired(i, t) == IF i.expiration = 0 THEN FALSE ELSE t > i.expiration

Set(d, key, value, expiration, t) ==
    [k \in DOMAIN d \cup {key} |->
        IF k = key
        THEN [value |-> value,
              expiration |-> IF expiration > 0 THEN t + expiration ELSE 0]
        ELSE d[k]]

\* the caller's test "err != nil || value == nil" is r.err # "": no stored value is nil
Get(d, key, t) ==
    IF key \notin DOMAIN d THEN [value |-> Nil, err |-> "key not found"]
    ELSE IF isExpired(d[key], t) THEN [value |-> Nil, err |-> "key expired"]
    ELSE [value |-> d[key].value, err |-> ""]

Delete(d, key) == [k \in DOMAIN d \ {key} |-> d[k]]

Exists(d, key, t) ==
    IF key \notin DOMAIN d THEN FALSE
    ELSE IF isExpired(d[key], t) THEN FALSE
    ELSE TRUE

Expire(d, key, expiration, t) ==
    IF key \notin DOMAIN d THEN d
    ELSE [d EXCEPT ![key].expiration = IF expiration > 0 THEN t + expiration ELSE 0]

\* the error Expire returns: only a key missing from the map is refused
ExpireErr(d, key) == IF key \notin DOMAIN d THEN "key not found: " \o key ELSE ""

cleanup(d, t) == [k \in {x \in DOMAIN d : ~isExpired(d[x], t)} |-> d[k]]

matchPattern(key, pattern) ==
    IF pattern = "" \/ pattern = "*" THEN TRUE
    ELSE LET p == TrimPrefix(pattern, "**/")
             parts == Split(p, "*")
         IN  IF HasSuffix(p, "*") THEN HasPrefix(key, TrimSuffix(p, "*"))
             ELSE IF HasPrefix(p, "*") THEN HasSuffix(key, TrimPrefix(p, "*"))
             ELSE IF Contains(p, "*") /\ Len(parts) = 2
                  THEN HasPrefix(key, parts[1]) /\ HasSuffix(key, parts[2])
             ELSE key = p

\* the slice Keys returns, as a set: the order is the map's iteration order
Keys_Unfiltered(d, pattern, t) == {k \in DOMAIN d : matchPattern(k, pattern)}

Keys(d, pattern, t) ==
    {k \in DOMAIN d : ~isExpired(d[k], t) /\ matchPattern(k, pattern)}

\* the duration TTL returns, in seconds
TTL(d, key, t) ==
    IF key \notin DOMAIN d THEN [value |-> -2, err |-> "key not found"]
    ELSE IF d[key].expiration = 0 THEN [value |-> -1, err |-> ""]
    ELSE IF d[key].expiration - t < 0 THEN [value |-> -2, err |-> ""]
    ELSE [value |-> d[key].expiration - t, err |-> ""]

\* ------------------------------------------------------------------ manager helpers

prefix == "satoken:"

getTokenKey(tokenValue) == prefix \o "token:" \o tokenValue

\* an account key that leaves the device out
getAccountKey_NoDevice(loginID, device) == prefix \o "account:" \o loginID

getAccountKey(loginID, device) == prefix \o "account:" \o loginID \o ":" \o device

\* the device a call acts on: "default" when the variadic argument is left out
deviceType(device) == IF Len(device) > 0 THEN device[1] ELSE "default"

getDisableKey(loginID) == prefix \o "disable:" \o loginID

getSessionKey(id) == prefix \o "session:" \o id

getExpiration == IF config.Timeout > 0 THEN config.Timeout ELSE 0

TokenInfo(loginID, device, createTime, activeTime, tag) ==
    [LoginID |-> loginID, Device |-> device, CreateTime |-> createTime,
     ActiveTime |-> activeTime, Tag |-> tag]

\* json.Marshal of a TokenInfo: the tag is left out when empty (omitempty)
Marshal(info) ==
    IF info.Tag = ""
    THEN [loginId |-> info.LoginID, device |-> info.Device,
          createTime |-> info.CreateTime, activeTime |-> info.ActiveTime]
    ELSE [loginId |-> info.LoginID, device |-> info.Device,
          createTime |-> info.CreateTime, activeTime |-> info.ActiveTime,
          tag |-> info.Tag]

\* json.Unmarshal into a zero TokenInfo: a missing tag stays ""
Unmarshal(js) ==
    TokenInfo(js.loginId, js.device, js.createTime, js.activeTime,
              IF "tag" \in DOMAIN js THEN js.tag ELSE "")

saveTokenInfo(d, tokenValue, info, expiration, t) ==
    Set(d, getTokenKey(tokenValue), Marshal(info), expiration, t)

getTokenInfo(d, tokenValue, t) ==
    LET r == Get(d, getTokenKey(tokenValue), t)
    IN  IF r.err # "" THEN Nil ELSE Unmarshal(r.value)

\* IsDisable that never finds the account disabled
IsDisable_Never(d, loginID, t) == FALSE

IsDisable(d, loginID, t) == Exists(d, getDisableKey(loginID), t)

\* ------------------------------------------------------------------ session

NewSession(id, t) == [id |-> id, createTime |-> t, data |-> <<>>]

\* Session.save: the whole object is written, without expiry
save(d, s, t) == Set(d, getSessionKey(s.id), s, 0, t)

\* Session.Set, the in-memory half: s.Data[key] = value
SessionSet(s, key, value) ==
    [s EXCEPT !.data = [k \in DOMAIN s.data \cup {key} |->
                            IF k = key THEN value ELSE s.data[k]]]

\* session.Load: the stored object, Nil when the key is absent or expired
Load(d, id, t) ==
    LET r == Get(d, getSessionKey(id), t)
    IN  IF r.err # "" THEN Nil ELSE r.value

\* Manager.GetSession: the loaded Session, a new one when Load fails
GetSession(d, loginID, t) ==
    LET sess == Load(d, loginID, t)
    IN  IF sess = Nil THEN NewSession(loginID, t) ELSE sess

\* ------------------------------------------------------------------ permissions and roles

\* toStringSlice: a []string saved in the Session's JSON loads as a []interface{}
\* of strings, which the second case turns back into the same []string
toStringSlice(v) == v

GetPermissions(d, loginID, t) ==
    LET sess == GetSession(d, loginID, t)
    IN  IF "permissions" \notin DOMAIN sess.data THEN <<>>
        ELSE toStringSlice(sess.data["permissions"])

\* matchPermission without the test of the number of segments
matchPermission_NoCount(pattern, permission) ==
    IF pattern = <<"*">> \/ pattern = permission THEN TRUE
    ELSE IF HasSuffix(pattern, <<":", "*">>)
         THEN HasPrefix(permission, TrimSuffix(pattern, <<"*">>))
    ELSE IF Contains(pattern, <<"*">>)
         THEN LET parts == Split(pattern, <<":">>)
                  permParts == Split(permission, <<":">>)
              IN  \A i \in DOMAIN parts :
                     i \in DOMAIN permParts => (parts[i] = <<"*">> \/ parts[i] = permParts[i])
    ELSE FALSE

matchPermission(pattern, permission) ==
    IF pattern = <<"*">> \/ pattern = permission THEN TRUE
    ELSE IF HasSuffix(pattern, <<":", "*">>)
         THEN HasPrefix(permission, TrimSuffix(pattern, <<"*">>))
    ELSE IF Contains(pattern, <<"*">>)
         THEN LET parts == Split(pattern, <<":">>)
                  permParts == Split(permission, <<":">>)
              IN  IF Len(parts) # Len(permParts) THEN FALSE
                  ELSE \A i \in DOMAIN parts :
                          ~(parts[i] # <<"*">> /\ parts[i] # permParts[i])
    ELSE FALSE

HasPermissionRet(d, loginID, permission, t) ==
    LET perms == GetPermissions(d, loginID, t)
    IN  \E i \in DOMAIN perms : matchPermission(perms[i], permission)

\* the loop of HasPermissionsAnd: false at the first permission not held
RECURSIVE HasPermissionsAndRet(_, _, _, _)
HasPermissionsAndRet(d, loginID, permissions, t) ==
    IF permissions = <<>> THEN TRUE
    ELSE IF ~HasPermissionRet(d, loginID, Head(permissions), t) THEN FALSE
    ELSE HasPermissionsAndRet(d, loginID, Tail(permissions), t)

\* the loop of HasPermissionsOr: true at the first permission held
RECURSIVE HasPermissionsOrRet(_, _, _, _)
HasPermissionsOrRet(d, loginID, permissions, t) ==
    IF permissions = <<>> THEN FALSE
    ELSE IF HasPermissionRet(d, loginID, Head(permissions), t) THEN TRUE
    ELSE HasPermissionsOrRet(d, loginID, Tail(permissions), t)

GetRoles(d, loginID, t) ==
    LET sess == GetSession(d, loginID, t)
    IN  IF "roles" \notin DOMAIN sess.data THEN <<>> ELSE toStringSlice(sess.data["roles"])

\* HasRole that matches roles as permissions are matched
HasRoleRet_Wildcard(d, loginID, role, t) ==
    LET roles == GetRoles(d, loginID, t)
    IN  \E i \in DOMAIN roles : roles[i] = "*" \/ roles[i] = role

HasRoleRet(d, loginID, role, t) ==
    LET roles == GetRoles(d, loginID, t)
    IN  \E i \in DOMAIN roles : roles[i] = role

RECURSIVE HasRolesAndRet(_, _, _, _)
HasRolesAndRet(d, loginID, roles, t) ==
    IF roles = <<>> THEN TRUE
    ELSE IF ~HasRoleRet(d, loginID, Head(roles), t) THEN FALSE
    ELSE HasRolesAndRet(d, loginID, Tail(roles), t)

RECURSIVE HasRolesOrRet(_, _, _, _)
HasRolesOrRet(d, loginID, roles, t) ==
    IF roles = <<>> THEN FALSE
    ELSE IF HasRoleRet(d, loginID, Head(roles), t) THEN TRUE
    ELSE HasRolesOrRet(d, loginID, Tail(roles), t)

\* ------------------------------------------------------------------ manager: pure parts

\* kickout that deletes the account mapping as Logout does
kickout_DropMapping(d, loginID, device, t) ==
    LET accountKey == getAccountKey(loginID, device)
        r == Get(d, accountKey, t)
    IN  IF r.err # "" THEN d
        ELSE Delete(Delete(d, getTokenKey(r.value)), accountKey)

\* Manager.kickout: the storage after the call
kickout(d, loginID, device, t) ==
    LET r == Get(d, getAccountKey(loginID, device), t)
    IN  IF r.err # "" THEN d ELSE Delete(d, getTokenKey(r.value))

\* Manager.Login lines 104-108: a new Session object, saved after each Set
loginSession(d, loginID, device, loginTime, t) ==
    LET s1 == SessionSet(NewSession(loginID, t), "loginId", loginID)
        s2 == SessionSet(s1, "device", device)
        s3 == SessionSet(s2, "loginTime", loginTime)
    IN  save(save(save(d, s1, t), s2, t), s3, t)

\* the inactivity test of IsLogin (lines 207-216)
activeTimedOut(d, tokenValue, t) ==
    /\ config.ActiveTimeout > 0
    /\ LET info == getTokenInfo(d, tokenValue, t)
       IN  /\ info # Nil
           /\ t - info.ActiveTime > config.ActiveTimeout

\* what IsLogin(tokenValue) returns when called on storage d at time t
IsLoginRet(d, tokenValue, t) ==
    IF tokenValue = "" THEN FALSE
    ELSE IF ~Exists(d, getTokenKey(tokenValue), t) THEN FALSE
    ELSE IF activeTimedOut(d, tokenValue, t) THEN FALSE
    ELSE TRUE

\* LogoutByToken that also removes the account mapping of the token's pair
LogoutByTokenData_AndMapping(d, tokenValue) ==
    LET key == getTokenKey(tokenValue)
    IN  IF key \notin DOMAIN d THEN d
        ELSE Delete(Delete(d, key),
                    getAccountKey(d[key].value.loginId, d[key].value.device))

\* Manager.LogoutByToken: the storage after the call
LogoutByTokenData(d, tokenValue) == Delete(d, getTokenKey(tokenValue))

\* the storage IsLogin leaves: LogoutByToken on inactivity
IsLoginData(d, tokenValue, t) ==
    IF tokenValue # "" /\ Exists(d, getTokenKey(tokenValue), t)
       /\ activeTimedOut(d, tokenValue, t)
    THEN LogoutByTokenData(d, tokenValue)
    ELSE d

\* IsLogin starts a renewal goroutine (lines 219-233)
IsLoginRenews(d, tokenValue, t) ==
    IsLoginRet(d, tokenValue, t) /\ config.AutoRenew /\ config.Timeout > 0

NewRenewal(tokenValue) == [tokenValue |-> tokenValue, pc |-> "Expire", info |-> Nil]

\* GetLoginID without the IsLogin check (what GetLoginIDNotCheck does)
GetLoginIDRet_NotCheck(d, tokenValue, t) ==
    LET info == getTokenInfo(d, tokenValue, t)
    IN  IF info = Nil THEN [value |-> "", err |-> "token not found"]
        ELSE [value |-> info.LoginID, err |-> ""]

\* what GetLoginID(tokenValue) returns: the IsLogin check, then getTokenInfo
GetLoginIDRet(d, tokenValue, t) ==
    IF ~IsLoginRet(d, tokenValue, t)
    THEN [value |-> "", err |-> "not login"]
    ELSE LET info == getTokenInfo(IsLoginData(d, tokenValue, t), tokenValue, t)
         IN  IF info = Nil THEN [value |-> "", err |-> "token not found"]
             ELSE [value |-> info.LoginID, err |-> ""]

\* the token a call on (loginID, device) finds in the account mapping, "" when none
mapped(d, loginID, device, t) ==
    LET r == Get(d, getAccountKey(loginID, device), t)
    IN  IF r.err # "" THEN "" ELSE r.value

\* how IsLogin would find a token on storage d at time t
TokenStatus(d, tokenValue, t) ==
    IF tokenValue = "" \/ ~Exists(d, getTokenKey(tokenValue), t) THEN "absent"
    ELSE IF activeTimedOut(d, tokenValue, t) THEN "idle"
    ELSE "valid"

\* The record of a call: operation, arguments and result.  token is the token the
\* call is about (its argument, or the one the account mapping named when the call
\* started) and found is how IsLogin would have found that token at that moment.
Returned(op, loginID, device, token, value, err) ==
    [op |-> op, loginID |-> loginID, device |-> device, token |-> token,
     found |-> TokenStatus(data, token, now), value |-> value, err |-> err]

NoRet == [op |-> "", loginID |-> "", device |-> "", token |-> "",
          found |-> "absent", value |-> "", err |-> ""]

\* ------------------------------------------------------------------ oauth2 server

Minute == 60

\* the lifetimes NewOAuth2Server and generateAccessToken use, in seconds
codeExpiration == 10 * Minute
tokenExpiration == 2 * 60 * Minute
refreshExpiration == 30 * 24 * 60 * Minute

Code(n) == "code" \o ToString(n)
AccessTokenValue(n) == "a" \o ToString(n)
RefreshTokenValue(n) == "r" \o ToString(n)

Client(clientID) ==
    [ClientID |-> clientID, ClientSecret |-> "secret:" \o clientID,
     RedirectURIs |-> {"https://" \o clientID}, Scopes |-> {"read"}]

\* NewOAuth2Server. heap holds the AuthorizationCode objects: the storage keeps a
\* pointer to each, so a write to authCode.Used is seen by every holder of it.
\* nextCode and nextToken number the random strings drawn so far. issued, grant
\* and refreshed are records of the past no code reads: the tokens returned per
\* code, the code each refresh token descends from, the refresh tokens a
\* RefreshAccessToken accepted, the access tokens a RevokeToken accepted.
NewOAuth2Server ==
    [clients |-> <<>>, codeExpiration |-> codeExpiration,
     tokenExpiration |-> tokenExpiration, heap |-> <<>>, calls |-> <<>>,
     nextCode |-> 0, nextToken |-> 0,
     issued |-> <<>>, grant |-> <<>>, refreshed |-> {}, revoked |-> {}]

RegisterClient(s, client) ==
    [s EXCEPT !.clients = [c \in DOMAIN @ \cup {client.ClientID} |->
                              IF c = client.ClientID THEN client ELSE @[c]]]

\* GenerateAuthorizationCode lines 144-150: the loop over client.RedirectURIs
validRedirect_Any(client, redirectURI) == TRUE

validRedirect(client, redirectURI) == \E uri \in client.RedirectURIs : uri = redirectURI

\* GetClient: the error, "" when the client is registered
GetClient(s, clientID) ==
    IF clientID \in DOMAIN s.clients THEN "" ELSE "client not found"

getCodeKey(code) == "satoken:oauth2:code:" \o code
getOAuthTokenKey(accessToken) == "satoken:oauth2:token:" \o accessToken
getRefreshKey(refreshToken) == "satoken:oauth2:refresh:" \o refreshToken

AuthorizationCode(code, clientID, redirectURI, userID, scopes, t, s) ==
    [Code |-> code, ClientID |-> clientID, RedirectURI |-> redirectURI,
     UserID |-> userID, Scopes |-> scopes, CreateTime |-> t,
     ExpiresIn |-> s.codeExpiration, Used |-> FALSE]

AccessToken(accessToken, refreshToken, scopes, userID, clientID, s) ==
    [Token |-> accessToken, TokenType |-> "Bearer", ExpiresIn |-> s.tokenExpiration,
     RefreshToken |-> refreshToken, Scopes |-> scopes, UserID |-> userID,
     ClientID |-> clientID]

\* generateAccessToken: the storage after its two Set calls
generateAccessToken(d, s, userID, clientID, scopes, t) ==
    LET accessToken == AccessTokenValue(s.nextToken + 1)
        refreshToken == RefreshTokenValue(s.nextToken + 1)
        token == AccessToken(accessToken, refreshToken, scopes, userID, clientID, s)
    IN  Set(Set(d, getOAuthTokenKey(accessToken), token, s.tokenExpiration, t),
            getRefreshKey(refreshToken), token, refreshExpiration, t)

\* generateAccessToken: the server after it, code being the grant the pair is for
generated(s, code, viaExchange) ==
    [s EXCEPT !.nextToken = @ + 1,
              !.issued = IF viaExchange THEN [@ EXCEPT ![code] = @ + 1] ELSE @,
              !.grant = [r \in DOMAIN @ \cup {RefreshTokenValue(s.nextToken + 1)} |->
                            IF r \in DOMAIN @ THEN @[r] ELSE code]]

\* ExchangeCodeForToken lines 182-217: the error of the first failing check, ""
\* when all pass
exchangeErr(d, s, code, clientID, clientSecret, redirectURI, t) ==
    LET r == Get(d, getCodeKey(code), t)
    IN  IF GetClient(s, clientID) # "" THEN GetClient(s, clientID)
        ELSE IF s.clients[clientID].ClientSecret # clientSecret
             THEN "invalid client credentials"
        ELSE IF r.err # "" THEN "invalid authorization code"
        ELSE LET authCode == s.heap[r.value.ptr]
             IN  IF authCode.Used THEN "authorization code already used"
                 ELSE IF authCode.ClientID # clientID THEN "client mismatch"
                 ELSE IF authCode.RedirectURI # redirectURI THEN "redirect_uri mismatch"
                 ELSE IF t > authCode.CreateTime + authCode.ExpiresIn
                      THEN "authorization code expired"
                 ELSE ""

\* the storage after a failed check: the expired code is deleted (line 215)
exchangeFailed(d, code, err) ==
    IF err = "authorization code expired" THEN Delete(d, getCodeKey(code)) ELSE d

\* lines 219-220: authCode.Used = true; s.storage.Set(key, authCode, time.Minute)
markUsed_Forget(s, code) == s

markUsed(s, code) == [s EXCEPT !.heap[code].Used = TRUE]

\* RefreshAccessToken lines 280-302: the error of the first failing check
refreshErr(d, s, refreshToken, clientID, clientSecret, t) ==
    LET r == Get(d, getRefreshKey(refreshToken), t)
    IN  IF GetClient(s, clientID) # "" THEN GetClient(s, clientID)
        ELSE IF s.clients[clientID].ClientSecret # clientSecret
             THEN "invalid client credentials"
        ELSE IF r.err # "" THEN "invalid refresh token"
        ELSE IF r.value.ClientID # clientID THEN "client mismatch"
        ELSE ""

\* RevokeToken lines 318-322: the linked refresh token's key is deleted
revokeLinked_Keep(d, token) == d

revokeLinked(d, token) ==
    IF token.RefreshToken # "" THEN Delete(d, getRefreshKey(token.RefreshToken)) ELSE d

\* ValidateAccessToken: its error, "" when the token is accepted
validateErr(d, tokenString, t) ==
    IF Get(d, getOAuthTokenKey(tokenString), t).err # "" THEN "invalid access token"
    ELSE ""

\* RefreshAccessToken lines 304-305: the old access token's key is deleted
revokeOld_Keep(d, oldToken) == d

revokeOld(d, oldToken) == Delete(d, getOAuthTokenKey(oldToken.Token))

\* ------------------------------------------------------------------ nonce manager

Nonce(n) == "n" \o ToString(n)

\* the nonces Generate has returned
Generated == {Nonce(n) : n \in 1..nm.next}

getNonceKey(nonce) == "satoken:nonce:" \o nonce

\* NewNonceManager: mu is the caller that holds the mutex (0: nobody), calls the
\* Verify calls in progress; next counts the nonces generated and trues the
\* Verify calls that returned true for each nonce.
NewNonceManager(ttl) ==
    [ttl |-> ttl, mu |-> 0, calls |-> <<>>, next |-> 0, trues |-> <<>>]

\* a mutex that is never held
unlocked_Always(mu) == TRUE

\* nm.mu can be taken
unlocked(mu) == mu = 0

\* ------------------------------------------------------------------ manager: calls

Configs ==
    [Timeout : TimeoutValues, ActiveTimeout : ActiveTimeoutValues,
     IsConcurrent : BOOLEAN, AutoRenew : BOOLEAN]

Init ==
    /\ now = 0
    /\ data = <<>>
    /\ config \in Configs
    /\ nextTok = 0
    /\ renewals = EmptyBag
    /\ logins = EmptyBag
    /\ ret = NoRet
    /\ hist = <<>>
    /\ nm \in {NewNonceManager(ttl) : ttl \in NonceTTLs}
    /\ oa = RegisterClient(RegisterClient(NewOAuth2Server, Client("c1")), Client("c2"))

\* Manager.Login lines 73-108 for the generated token: the storage after them
loginData(d, loginID, device, tokenValue, t) ==
    LET tokenInfo == TokenInfo(loginID, device, t, t, "")
        d2 == saveTokenInfo(d, tokenValue, tokenInfo, getExpiration, t)
        d3 == Set(d2, getAccountKey(loginID, device), tokenValue, getExpiration, t)
    IN  loginSession(d3, loginID, device, t, t)

\* Login that never evicts
evict_Never(d, loginID, device, t) == d

\* Manager.Login lines 68-71: without concurrent login the old token is kicked out
evict(d, loginID, device, t) ==
    IF ~config.IsConcurrent THEN kickout(d, loginID, device, t) ELSE d

\* Manager.Login, run without interleaving
Login(loginID, device) ==
    /\ nextTok < MaxTokens
    /\ IF IsDisable(data, loginID, now)
       THEN /\ ret' = Returned("Login", loginID, device,
                               mapped(data, loginID, device, now),
                               "", "account is disabled")
            /\ UNCHANGED <<data, nextTok>>
       ELSE LET d1 == evict(data, loginID, device, now)
                tokenValue == Token(nextTok + 1)
            IN  /\ data' = loginData(d1, loginID, device, tokenValue, now)
                /\ nextTok' = nextTok + 1
                /\ ret' = Returned("Login", loginID, device,
                                   mapped(data, loginID, device, now),
                                   tokenValue, "")
    /\ UNCHANGED <<now, config, renewals, logins>>

\* Logout that deletes the token and leaves the account mapping
LogoutData_KeepMapping(d, loginID, device, t) ==
    LET r == Get(d, getAccountKey(loginID, device), t)
    IN  IF r.err # "" THEN d ELSE Delete(d, getTokenKey(r.value))

\* Manager.Logout: the storage after the call
LogoutData(d, loginID, device, t) ==
    LET accountKey == getAccountKey(loginID, device)
        r == Get(d, accountKey, t)
    IN  IF r.err # "" THEN d
        ELSE Delete(Delete(d, getTokenKey(r.value)), accountKey)

\* Manager.Logout
Logout(loginID, device) ==
    /\ data' = LogoutData(data, loginID, device, now)
    /\ ret' = Returned("Logout", loginID, device,
                       mapped(data, loginID, device, now), "", "")
    /\ UNCHANGED <<now, config, nextTok, renewals, logins>>

\* Manager.LoginByToken: no disable check, no kickout, no session
LoginByToken(loginID, tokenValue, device) ==
    /\ LET tokenInfo == TokenInfo(loginID, device, now, now, "")
           d1 == saveTokenInfo(data, tokenValue, tokenInfo, getExpiration, now)
       IN  data' = Set(d1, getAccountKey(loginID, device), tokenValue, getExpiration, now)
    /\ ret' = Returned("LoginByToken", loginID, device, tokenValue, "", "")
    /\ UNCHANGED <<now, config, nextTok, renewals, logins>>

\* Manager.LogoutByToken
LogoutByToken(tokenValue) ==
    /\ data' = LogoutByTokenData(data, tokenValue)
    /\ ret' = Returned("LogoutByToken", "", "", tokenValue, "", "")
    /\ UNCHANGED <<now, config, nextTok, renewals, logins>>

\* Manager.Kickout
Kickout(loginID, device) ==
    /\ data' = kickout(data, loginID, device, now)
    /\ ret' = Returned("Kickout", loginID, device,
                       mapped(data, loginID, device, now), "", "")
    /\ UNCHANGED <<now, config, nextTok, renewals, logins>>

\* the part of a call that runs IsLogin: its storage effect and the goroutine it starts
isLoginEffect(tokenValue) ==
    /\ data' = IsLoginData(data, tokenValue, now)
    /\ IF IsLoginRenews(data, tokenValue, now)
       THEN /\ BagCardinality(renewals) < MaxRenew
            /\ renewals' = renewals (+) SetToBag({NewRenewal(tokenValue)})
       ELSE UNCHANGED renewals

\* Manager.IsLogin
IsLogin(tokenValue) ==
    /\ isLoginEffect(tokenValue)
    /\ ret' = Returned("IsLogin", "", "", tokenValue,
                       IF IsLoginRet(data, tokenValue, now) THEN "true" ELSE "false", "")
    /\ UNCHANGED <<now, config, nextTok, logins>>

\* Manager.GetLoginID
GetLoginID(tokenValue) ==
    /\ isLoginEffect(tokenValue)
    /\ LET r == GetLoginIDRet(data, tokenValue, now)
       IN  ret' = Returned("GetLoginID", "", "", tokenValue, r.value, r.err)
    /\ UNCHANGED <<now, config, nextTok, logins>>

\* Manager.SetTokenTag: the storage after the call
SetTokenTagData(d, tokenValue, tag, t) ==
    LET info == getTokenInfo(d, tokenValue, t)
    IN  IF info = Nil THEN d
        ELSE saveTokenInfo(d, tokenValue, [info EXCEPT !.Tag = tag], getExpiration, t)

\* Manager.SetTokenTag
SetTokenTag(tokenValue, tag) ==
    /\ data' = SetTokenTagData(data, tokenValue, tag, now)
    /\ ret' = Returned("SetTokenTag", "", "", tokenValue, "",
                       IF getTokenInfo(data, tokenValue, now) = Nil
                       THEN "token not found" ELSE "")
    /\ UNCHANGED <<now, config, nextTok, renewals, logins>>

\* Manager.GetTokenTag: the tag and the error it returns
GetTokenTagRet(d, tokenValue, t) ==
    LET info == getTokenInfo(d, tokenValue, t)
    IN  IF info = Nil THEN [value |-> "", err |-> "token not found"]
        ELSE [value |-> info.Tag, err |-> ""]

\* Manager.GetTokenValueListByLoginID: the slice it returns, as the map from each
\* key that Keys matched and Get found to the token stored under it
GetTokenValueListByLoginIDRet(d, loginID, t) ==
    LET keys == Keys(d, prefix \o "account:" \o loginID \o ":*", t)
    IN  [key \in {k \in keys : Get(d, k, t).err = ""} |-> Get(d, key, t).value]

\* Manager.GetTokenValueListByLoginID; ret.value is the set of the tokens returned
GetTokenValueListByLoginID(loginID) ==
    /\ LET tokens == GetTokenValueListByLoginIDRet(data, loginID, now)
       IN  ret' = Returned("GetTokenValueListByLoginID", loginID, "", "",
                           {tokens[k] : k \in DOMAIN tokens}, "")
    /\ UNCHANGED <<now, data, config, nextTok, renewals, logins>>

\* Manager.GetSessionCountByLoginID: len(tokens)
GetSessionCountByLoginID(loginID) ==
    /\ LET tokens == GetTokenValueListByLoginIDRet(data, loginID, now)
       IN  ret' = Returned("GetSessionCountByLoginID", loginID, "", "",
                           Cardinality(DOMAIN tokens), "")
    /\ UNCHANGED <<now, data, config, nextTok, renewals, logins>>

\* Manager.SetPermissions
SetPermissions(loginID, permissions) ==
    /\ data' = save(data, SessionSet(GetSession(data, loginID, now),
                                     "permissions", permissions), now)
    /\ ret' = Returned("SetPermissions", loginID, "", "", "", "")
    /\ UNCHANGED <<now, config, nextTok, renewals, logins>>

\* Manager.SetRoles
SetRoles(loginID, roles) ==
    /\ data' = save(data, SessionSet(GetSession(data, loginID, now), "roles", roles), now)
    /\ ret' = Returned("SetRoles", loginID, "", "", "", "")
    /\ UNCHANGED <<now, config, nextTok, renewals, logins>>

\* The record of a call that asks: token is what was asked for (a permission, a
\* role or a list of them), value the answer.
Asked(op, loginID, query, answer) ==
    [NoRet EXCEPT !.op = op, !.loginID = loginID, !.token = query,
                  !.value = IF answer THEN "true" ELSE "false"]

HasPermission(loginID, permission) ==
    /\ ret' = Asked("HasPermission", loginID, permission,
                    HasPermissionRet(data, loginID, permission, now))
    /\ UNCHANGED <<now, data, config, nextTok, renewals, logins>>

HasPermissionsAnd(loginID, permissions) ==
    /\ ret' = Asked("HasPermissionsAnd", loginID, permissions,
                    HasPermissionsAndRet(data, loginID, permissions, now))
    /\ UNCHANGED <<now, data, config, nextTok, renewals, logins>>

HasPermissionsOr(loginID, permissions) ==
    /\ ret' = Asked("HasPermissionsOr", loginID, permissions,
                    HasPermissionsOrRet(data, loginID, permissions, now))
    /\ UNCHANGED <<now, data, config, nextTok, renewals, logins>>

HasRole(loginID, role) ==
    /\ ret' = Asked("HasRole", loginID, role, HasRoleRet(data, loginID, role, now))
    /\ UNCHANGED <<now, data, config, nextTok, renewals, logins>>

HasRolesAnd(loginID, roles) ==
    /\ ret' = Asked("HasRolesAnd", loginID, roles, HasRolesAndRet(data, loginID, roles, now))
    /\ UNCHANGED <<now, data, config, nextTok, renewals, logins>>

HasRolesOr(loginID, roles) ==
    /\ ret' = Asked("HasRolesOr", loginID, roles, HasRolesOrRet(data, loginID, roles, now))
    /\ UNCHANGED <<now, data, config, nextTok, renewals, logins>>

\* Manager.Disable
Disable(loginID, duration) ==
    /\ data' = Set(data, getDisableKey(loginID), "1", duration, now)
    /\ ret' = Returned("Disable", loginID, "", "", "", "")
    /\ UNCHANGED <<now, config, nextTok, renewals, logins>>

\* Manager.Untie
Untie(loginID) ==
    /\ data' = Delete(data, getDisableKey(loginID))
    /\ ret' = Returned("Untie", loginID, "", "", "", "")
    /\ UNCHANGED <<now, config, nextTok, renewals, logins>>

\* ------------------------------------------------------------------ Login, step by step

\* A Login call in progress: its arguments, the statement it is about to run and
\* its local variables.
NewLogin(loginID, device) ==
    [loginID |-> loginID, device |-> device,
     pc |-> IF ~config.IsConcurrent THEN "kickoutGet" ELSE "Generate",
     old |-> "", tokenValue |-> "", now |-> 0]

goto(c, c2) == logins' = (logins (-) SetToBag({c})) (+) SetToBag({c2})

\* Login is called: m.IsDisable(loginID) (lines 59-66)
LoginCall(loginID, device) ==
    /\ BagCardinality(logins) < MaxLogins
    /\ IF IsDisable(data, loginID, now)
       THEN /\ ret' = Returned("Login", loginID, device, "", "", "account is disabled")
            /\ UNCHANGED logins
       ELSE /\ logins' = logins (+) SetToBag({NewLogin(loginID, device)})
            /\ ret' = NoRet
    /\ UNCHANGED <<now, data, config, nextTok, renewals, hist>>

\* kickout: m.storage.Get(accountKey) (lines 173-177)
LoginKickoutGet(c) ==
    /\ c.pc = "kickoutGet"
    /\ LET r == Get(data, getAccountKey(c.loginID, c.device), now)
       IN  IF r.err # "" THEN goto(c, [c EXCEPT !.pc = "Generate"])
           ELSE goto(c, [c EXCEPT !.pc = "kickoutDelete", !.old = r.value])
    /\ ret' = NoRet
    /\ UNCHANGED <<now, data, config, nextTok, renewals, hist>>

\* kickout: m.storage.Delete(tokenKey) (lines 179-180)
LoginKickoutDelete(c) ==
    /\ c.pc = "kickoutDelete"
    /\ data' = Delete(data, getTokenKey(c.old))
    /\ goto(c, [c EXCEPT !.pc = "Generate"])
    /\ ret' = NoRet
    /\ UNCHANGED <<now, config, nextTok, renewals, hist>>

\* m.generator.Generate and time.Now().Unix() (lines 74-85)
LoginGenerate(c) ==
    /\ c.pc = "Generate"
    /\ nextTok < MaxTokens
    /\ nextTok' = nextTok + 1
    /\ goto(c, [c EXCEPT !.pc = "saveTokenInfo",
                         !.tokenValue = Token(nextTok + 1), !.now = now])
    /\ ret' = NoRet
    /\ UNCHANGED <<now, data, config, renewals, hist>>

\* m.saveTokenInfo(tokenValue, tokenInfo, expiration) (lines 86-96)
LoginSaveTokenInfo(c) ==
    /\ c.pc = "saveTokenInfo"
    /\ data' = saveTokenInfo(data, c.tokenValue,
                             TokenInfo(c.loginID, c.device, c.now, c.now, ""),
                             getExpiration, now)
    /\ goto(c, [c EXCEPT !.pc = "SetAccount"])
    /\ ret' = NoRet
    /\ UNCHANGED <<now, config, nextTok, renewals, hist>>

\* m.storage.Set(accountKey, tokenValue, expiration) (lines 98-102)
LoginSetAccount(c) ==
    /\ c.pc = "SetAccount"
    /\ data' = Set(data, getAccountKey(c.loginID, c.device), c.tokenValue,
                   getExpiration, now)
    /\ goto(c, [c EXCEPT !.pc = "session"])
    /\ ret' = NoRet
    /\ UNCHANGED <<now, config, nextTok, renewals, hist>>

\* the session part (lines 104-108) and the return of the token (line 110)
LoginSession(c) ==
    /\ c.pc = "session"
    /\ data' = loginSession(data, c.loginID, c.device, c.now, now)
    /\ logins' = logins (-) SetToBag({c})
    /\ ret' = Returned("Login", c.loginID, c.device, c.old, c.tokenValue, "")
    /\ UNCHANGED <<now, config, nextTok, renewals, hist>>

\* ------------------------------------------------------------------ a storage that can fail

\* The manager on a backend whose calls can return an error, as the Redis one's
\* do (redis.go:87-106): failing is the set of the handler's storage calls that
\* return one, and a call that fails changes nothing. hist becomes the record of
\* the calls that were made and failed.
storageError == "storage error"

\* the error of crypto/rand that Generate passes on
generateError == "rand error"

failedCalls(calls) == [c \in calls |-> TRUE]

\* Manager.kickout: the storage after it, its error and the calls that failed
kickoutF(d, loginID, device, failing, t) ==
    LET r == Get(d, getAccountKey(loginID, device), t)
    IN  IF "Get" \in failing THEN [data |-> d, err |-> "", failed |-> {"Get"}]
        ELSE IF r.err # "" THEN [data |-> d, err |-> "", failed |-> {}]
        ELSE IF "DeleteToken" \in failing
             THEN [data |-> d, err |-> storageError, failed |-> {"DeleteToken"}]
        ELSE [data |-> Delete(d, getTokenKey(r.value)), err |-> "", failed |-> {}]

LoginF(loginID, device, failing) ==
    /\ nextTok < MaxTokens
    /\ IF IsDisable(data, loginID, now)
       THEN /\ ret' = Returned("Login", loginID, device, "", "", "account is disabled")
            /\ hist' = failedCalls({})
            /\ UNCHANGED <<data, nextTok>>
       ELSE LET k == IF ~config.IsConcurrent
                     THEN kickoutF(data, loginID, device, failing, now)
                     ELSE [data |-> data, err |-> "", failed |-> {}]
                tokenValue == Token(nextTok + 1)
                tokenInfo == TokenInfo(loginID, device, now, now, "")
                d2 == saveTokenInfo(k.data, tokenValue, tokenInfo, getExpiration, now)
                d3 == Set(d2, getAccountKey(loginID, device), tokenValue, getExpiration, now)
            IN  IF "Generate" \in failing
                THEN /\ data' = k.data
                     /\ hist' = failedCalls(k.failed \cup {"Generate"})
                     /\ ret' = Returned("Login", loginID, device, "", "",
                                        "failed to generate token: " \o generateError)
                     /\ UNCHANGED nextTok
                ELSE
                /\ nextTok' = nextTok + 1
                /\ IF "SetToken" \in failing
                   THEN /\ data' = k.data
                        /\ hist' = failedCalls(k.failed \cup {"SetToken"})
                        /\ ret' = Returned("Login", loginID, device, "", "", storageError)
                   ELSE IF "SetAccount" \in failing
                   THEN /\ data' = d2
                        /\ hist' = failedCalls(k.failed \cup {"SetAccount"})
                        /\ ret' = Returned("Login", loginID, device, "", "",
                                           "failed to save account mapping: " \o storageError)
                   ELSE /\ data' = IF "SetSession" \in failing THEN d3
                                   ELSE loginSession(d3, loginID, device, now, now)
                        /\ hist' = failedCalls(k.failed \cup (failing \cap {"SetSession"}))
                        /\ ret' = Returned("Login", loginID, device, "", tokenValue, "")
    /\ UNCHANGED <<now, config, renewals, logins>>

LogoutF(loginID, device, failing) ==
    /\ LET accountKey == getAccountKey(loginID, device)
           r == Get(data, accountKey, now)
           d1 == IF "DeleteToken" \in failing THEN data ELSE Delete(data, getTokenKey(r.value))
           d2 == IF "DeleteAccount" \in failing THEN d1 ELSE Delete(d1, accountKey)
       IN  IF "Get" \in failing THEN data' = data /\ hist' = failedCalls({"Get"})
           ELSE IF r.err # "" THEN data' = data /\ hist' = failedCalls({})
           ELSE data' = d2 /\ hist' = failedCalls(failing \cap {"DeleteToken", "DeleteAccount"})
    /\ ret' = Returned("Logout", loginID, device, "", "", "")
    /\ UNCHANGED <<now, config, nextTok, renewals, logins>>

LogoutByTokenF(tokenValue, failing) ==
    /\ data' = IF "DeleteToken" \in failing THEN data ELSE LogoutByTokenData(data, tokenValue)
    /\ hist' = failedCalls(failing \cap {"DeleteToken"})
    /\ ret' = Returned("LogoutByToken", "", "", tokenValue, "", "")
    /\ UNCHANGED <<now, config, nextTok, renewals, logins>>

KickoutF(loginID, device, failing) ==
    /\ LET k == kickoutF(data, loginID, device, failing, now)
       IN  /\ data' = k.data
           /\ hist' = failedCalls(k.failed)
           /\ ret' = Returned("Kickout", loginID, device, "", "", k.err)
    /\ UNCHANGED <<now, config, nextTok, renewals, logins>>

\* ------------------------------------------------------------------ Session.Set, step by step

\* A call that sets one attribute of a principal's Session, after its GetSession:
\* sess is the Session object GetSession built for this call.
NewSet(op, loginID, key, value) ==
    [op |-> op, loginID |-> loginID, pc |-> "Set", key |-> key, value |-> value,
     sess |-> GetSession(data, loginID, now)]

\* m.GetSession(loginID) of SetPermissions, of SetRoles or of the caller of
\* Session.Set
GetSessionCall(op, loginID, key, value) ==
    /\ BagCardinality(logins) < MaxSets
    /\ logins' = logins (+) SetToBag({NewSet(op, loginID, key, value)})
    /\ ret' = NoRet
    /\ UNCHANGED <<now, data, config, nextTok, renewals>>

\* sess.Set(key, value): s.mu is the lock of the call's own Session object, which
\* no other call holds
SessionSetCall(c) ==
    /\ c.pc = "Set"
    /\ data' = save(data, SessionSet(c.sess, c.key, c.value), now)
    /\ logins' = logins (-) SetToBag({c})
    /\ ret' = Returned(c.op, c.loginID, "", "", "", "")
    /\ UNCHANGED <<now, config, nextTok, renewals>>

\* the attribute values that the calls returned so far wrote last
histSet(c) ==
    hist' = [k \in DOMAIN hist \cup {c.key} |-> IF k = c.key THEN c.value ELSE hist[k]]

\* ------------------------------------------------------------------ storage calls

\* hist maps a key to the time and the ttl of the Set that stored it last
StorageSet(key, value, expiration) ==
    /\ data' = Set(data, key, value, expiration, now)
    /\ hist' = [k \in DOMAIN hist \cup {key} |->
                  IF k = key THEN [at |-> now, ttl |-> expiration] ELSE hist[k]]
    /\ ret' = Returned("Set", "", "", key, "", "")
    /\ UNCHANGED <<now, config, nextTok, renewals, logins, nm, oa>>

StorageGet(key) ==
    /\ LET r == Get(data, key, now)
       IN ret' = Returned("Get", "", "", key, IF r.err = "" THEN r.value ELSE "", r.err)
    /\ UNCHANGED <<now, data, config, nextTok, renewals, logins, hist, nm, oa>>

StorageDelete(key) ==
    /\ data' = Delete(data, key)
    /\ hist' = [k \in DOMAIN hist \ {key} |-> hist[k]]
    /\ ret' = Returned("Delete", "", "", key, "", "")
    /\ UNCHANGED <<now, config, nextTok, renewals, logins, nm, oa>>

StorageExists(key) ==
    /\ ret' = Returned("Exists", "", "", key,
                       IF Exists(data, key, now) THEN "true" ELSE "false", "")
    /\ UNCHANGED <<now, data, config, nextTok, renewals, logins, hist, nm, oa>>

StorageKeys(pattern) ==
    /\ ret' = Returned("Keys", "", "", pattern, Keys(data, pattern, now), "")
    /\ UNCHANGED <<now, data, config, nextTok, renewals, logins, hist, nm, oa>>

\* ret.value is what Exists reported for the key when the call was made
StorageExpire(key, expiration) ==
    /\ data' = Expire(data, key, expiration, now)
    /\ ret' = Returned("Expire", "", "", key,
                       IF Exists(data, key, now) THEN "true" ELSE "false",
                       ExpireErr(data, key))
    /\ UNCHANGED <<now, config, nextTok, renewals, logins, hist, nm, oa>>

StorageTTL(key) ==
    /\ LET r == TTL(data, key, now)
       IN ret' = Returned("TTL", "", "", key, r.value, r.err)
    /\ UNCHANGED <<now, data, config, nextTok, renewals, logins, hist, nm, oa>>

\* ------------------------------------------------------------------ nonce calls

\* NonceManager.Generate
Generate ==
    /\ nm.next < MaxNonces
    /\ LET nonce == Nonce(nm.next + 1)
       IN  /\ data' = Set(data, getNonceKey(nonce), now, nm.ttl, now)
           /\ nm' = [nm EXCEPT !.next = @ + 1,
                               !.trues = [n \in DOMAIN @ \cup {nonce} |-> 0]]
           /\ ret' = Returned("Generate", "", "", "", nonce, "")
    /\ UNCHANGED <<now, config, nextTok, renewals, logins, hist, oa>>

\* what a Verify call that returns leaves in nm
verifyReturn(v, nonce, result) ==
    [nm EXCEPT !.calls = [w \in DOMAIN @ \ {v} |-> @[w]],
               !.mu = IF @ = v THEN 0 ELSE @,
               !.trues = IF result /\ nonce \in DOMAIN @
                         THEN [@ EXCEPT ![nonce] = @ + 1] ELSE @]

\* caller v calls Verify(nonce): the test for the empty nonce (lines 150-153)
VerifyCall(v, nonce) ==
    /\ v \notin DOMAIN nm.calls
    /\ IF nonce = ""
       THEN /\ ret' = Returned("Verify", "", "", nonce, "false", "")
            /\ UNCHANGED nm
       ELSE /\ nm' = [nm EXCEPT !.calls = [w \in DOMAIN @ \cup {v} |->
                                   IF w = v THEN [nonce |-> nonce, pc |-> "Lock"]
                                   ELSE @[w]]]
            /\ ret' = NoRet
    /\ UNCHANGED <<now, data, config, nextTok, renewals, logins, hist, oa>>

\* nm.mu.Lock()
VerifyLock(v) ==
    /\ v \in DOMAIN nm.calls
    /\ nm.calls[v].pc = "Lock"
    /\ unlocked(nm.mu)
    /\ nm' = [nm EXCEPT !.mu = v, !.calls[v].pc = "Exists"]
    /\ ret' = NoRet
    /\ UNCHANGED <<now, data, config, nextTok, renewals, logins, hist, oa>>

\* if !nm.storage.Exists(key) { return false }
VerifyExists(v) ==
    /\ v \in DOMAIN nm.calls
    /\ nm.calls[v].pc = "Exists"
    /\ LET nonce == nm.calls[v].nonce
       IN  IF Exists(data, getNonceKey(nonce), now)
           THEN /\ nm' = [nm EXCEPT !.calls[v].pc = "Delete"]
                /\ ret' = NoRet
           ELSE /\ nm' = verifyReturn(v, nonce, FALSE)
                /\ ret' = Returned("Verify", "", "", nonce, "false", "")
    /\ UNCHANGED <<now, data, config, nextTok, renewals, logins, hist, oa>>

\* nm.storage.Delete(key); return true
VerifyDelete(v) ==
    /\ v \in DOMAIN nm.calls
    /\ nm.calls[v].pc = "Delete"
    /\ LET nonce == nm.calls[v].nonce
       IN  /\ data' = Delete(data, getNonceKey(nonce))
           /\ nm' = verifyReturn(v, nonce, TRUE)
           /\ ret' = Returned("Verify", "", "", nonce, "true", "")
    /\ UNCHANGED <<now, config, nextTok, renewals, logins, hist, oa>>

\* ------------------------------------------------------------------ oauth2 calls

Codes == {Code(n) : n \in 1..oa.nextCode}
AccessTokens == {AccessTokenValue(n) : n \in 1..oa.nextToken}
RefreshTokens == {RefreshTokenValue(n) : n \in 1..oa.nextToken}

\* the time steps of the oauth2 runs: a tombstone's and a code's lifetime
Sleeps == {Minute, codeExpiration}

Sleep(d) ==
    /\ now < MaxTime * Minute
    /\ now' = now + d
    /\ ret' = NoRet
    /\ UNCHANGED <<data, config, nextTok, renewals, logins, hist, nm, oa>>

GenerateAuthorizationCode(clientID, redirectURI, userID, scopes) ==
    /\ oa.nextCode < MaxCodes
    /\ LET code == Code(oa.nextCode + 1)
           authCode == AuthorizationCode(code, clientID, redirectURI, userID, scopes, now, oa)
       IN  IF GetClient(oa, clientID) # ""
           THEN /\ ret' = Returned("GenerateAuthorizationCode", "", "", "", "",
                                   GetClient(oa, clientID))
                /\ UNCHANGED <<data, oa>>
           ELSE IF ~validRedirect(oa.clients[clientID], redirectURI)
           THEN /\ ret' = Returned("GenerateAuthorizationCode", "", "", "", "",
                                   "invalid redirect_uri")
                /\ UNCHANGED <<data, oa>>
           ELSE /\ data' = Set(data, getCodeKey(code), [ptr |-> code], oa.codeExpiration, now)
                /\ oa' = [oa EXCEPT !.nextCode = @ + 1,
                                    !.heap = [c \in DOMAIN @ \cup {code} |->
                                                 IF c = code THEN authCode ELSE @[c]],
                                    !.issued = [c \in DOMAIN @ \cup {code} |->
                                                   IF c = code THEN 0 ELSE @[c]]]
                /\ ret' = Returned("GenerateAuthorizationCode", "", "", "", code, "")
    /\ UNCHANGED <<now, config, nextTok, renewals, logins, hist, nm>>

\* ExchangeCodeForToken run from call to return with no other call in between;
\* ret.token is the code, ret.value the access token returned
ExchangeCodeForToken(code, clientID, clientSecret, redirectURI) ==
    /\ oa.nextToken < MaxPairs
    /\ LET err == exchangeErr(data, oa, code, clientID, clientSecret, redirectURI, now)
           authCode == oa.heap[code]
       IN  IF err # ""
           THEN /\ data' = exchangeFailed(data, code, err)
                /\ ret' = Returned("ExchangeCodeForToken", "", "", code, "", err)
                /\ UNCHANGED oa
           ELSE /\ data' = generateAccessToken(
                               Set(data, getCodeKey(code), [ptr |-> code], Minute, now),
                               oa, authCode.UserID, authCode.ClientID, authCode.Scopes, now)
                /\ oa' = generated(markUsed(oa, code), code, TRUE)
                /\ ret' = Returned("ExchangeCodeForToken", "", "", code,
                                   AccessTokenValue(oa.nextToken + 1), "")
    /\ UNCHANGED <<now, config, nextTok, renewals, logins, hist, nm>>

ValidateAccessToken(tokenString) ==
    /\ LET r == Get(data, getOAuthTokenKey(tokenString), now)
       IN  ret' = Returned("ValidateAccessToken", "", "", tokenString,
                           IF r.err # "" THEN "" ELSE r.value.Token,
                           validateErr(data, tokenString, now))
    /\ UNCHANGED <<now, data, config, nextTok, renewals, logins, hist, nm, oa>>

\* ret.token is the refresh token presented, ret.value the new access token
RefreshAccessToken(refreshToken, clientID, clientSecret) ==
    /\ oa.nextToken < MaxPairs
    /\ LET err == refreshErr(data, oa, refreshToken, clientID, clientSecret, now)
           oldToken == Get(data, getRefreshKey(refreshToken), now).value
       IN  IF err # ""
           THEN /\ ret' = Returned("RefreshAccessToken", "", "", refreshToken, "", err)
                /\ UNCHANGED <<data, oa>>
           ELSE /\ data' = generateAccessToken(revokeOld(data, oldToken), oa,
                               oldToken.UserID, oldToken.ClientID, oldToken.Scopes, now)
                /\ oa' = [generated(oa, oa.grant[refreshToken], FALSE)
                             EXCEPT !.refreshed = @ \cup {refreshToken}]
                /\ ret' = Returned("RefreshAccessToken", "", "", refreshToken,
                                   AccessTokenValue(oa.nextToken + 1), "")
    /\ UNCHANGED <<now, config, nextTok, renewals, logins, hist, nm>>

RevokeToken(tokenString) ==
    /\ LET key == getOAuthTokenKey(tokenString)
           r == Get(data, key, now)
       IN  IF r.err # ""
           THEN /\ ret' = Returned("RevokeToken", "", "", tokenString, "", r.err)
                /\ UNCHANGED <<data, oa>>
           ELSE /\ data' = Delete(revokeLinked(data, r.value), key)
                /\ oa' = [oa EXCEPT !.revoked = @ \cup {tokenString}]
                /\ ret' = Returned("RevokeToken", "", "", tokenString, "", "")
    /\ UNCHANGED <<now, config, nextTok, renewals, logins, hist, nm>>

\* ExchangeCodeForToken step by step, for callers x that run at once.
\* lines 182-217: the checks, up to the test of the expiry
ExchangeCall(x, code, clientID, clientSecret, redirectURI) ==
    /\ x \notin DOMAIN oa.calls
    /\ LET err == exchangeErr(data, oa, code, clientID, clientSecret, redirectURI, now)
       IN  IF err # ""
           THEN /\ data' = exchangeFailed(data, code, err)
                /\ ret' = Returned("ExchangeCodeForToken", "", "", code, "", err)
                /\ UNCHANGED oa
           ELSE /\ oa' = [oa EXCEPT !.calls = [y \in DOMAIN @ \cup {x} |->
                                       IF y = x THEN [code |-> code, pc |-> "Used"]
                                       ELSE @[y]]]
                /\ ret' = NoRet
                /\ UNCHANGED data
    /\ UNCHANGED <<now, config, nextTok, renewals, logins, hist, nm>>

\* lines 219-220
ExchangeUsed(x) ==
    /\ x \in DOMAIN oa.calls
    /\ oa.calls[x].pc = "Used"
    /\ LET code == oa.calls[x].code
       IN  /\ oa' = [markUsed(oa, code) EXCEPT !.calls[x].pc = "generateAccessToken"]
           /\ data' = Set(data, getCodeKey(code), [ptr |-> code], Minute, now)
    /\ ret' = NoRet
    /\ UNCHANGED <<now, config, nextTok, renewals, logins, hist, nm>>

\* line 222
ExchangeGenerate(x) ==
    /\ x \in DOMAIN oa.calls
    /\ oa.calls[x].pc = "generateAccessToken"
    /\ oa.nextToken < MaxPairs
    /\ LET code == oa.calls[x].code
           authCode == oa.heap[code]
       IN  /\ data' = generateAccessToken(data, oa, authCode.UserID, authCode.ClientID,
                                          authCode.Scopes, now)
           /\ oa' = [generated(oa, code, TRUE)
                        EXCEPT !.calls = [y \in DOMAIN @ \ {x} |-> @[y]]]
           /\ ret' = Returned("ExchangeCodeForToken", "", "", code,
                              AccessTokenValue(oa.nextToken + 1), "")
    /\ UNCHANGED <<now, config, nextTok, renewals, logins, hist, nm>>

\* ------------------------------------------------------------------ renewal goroutine

\* m.storage.Expire(tokenKey, expiration); its error is dropped
RenewExpire(r) ==
    /\ r.pc = "Expire"
    /\ data' = Expire(data, getTokenKey(r.tokenValue), config.Timeout, now)
    /\ renewals' = (renewals (-) SetToBag({r}))
                     (+) SetToBag({[r EXCEPT !.pc = "getTokenInfo"]})
    /\ ret' = NoRet
    /\ UNCHANGED <<now, config, nextTok, logins>>

\* info, _ := m.getTokenInfo(tokenValue); info.ActiveTime = time.Now().Unix()
RenewGet(r) ==
    /\ r.pc = "getTokenInfo"
    /\ LET info == getTokenInfo(data, r.tokenValue, now)
       IN  renewals' =
             IF info = Nil THEN renewals (-) SetToBag({r})
             ELSE (renewals (-) SetToBag({r}))
                  (+) SetToBag({[r EXCEPT !.pc = "saveTokenInfo",
                                          !.info = [info EXCEPT !.ActiveTime = now]]})
    /\ ret' = NoRet
    /\ UNCHANGED <<now, data, config, nextTok, logins>>

\* m.saveTokenInfo(tokenValue, info, expiration)
RenewSave(r) ==
    /\ r.pc = "saveTokenInfo"
    /\ data' = saveTokenInfo(data, r.tokenValue, r.info, config.Timeout, now)
    /\ renewals' = renewals (-) SetToBag({r})
    /\ ret' = NoRet
    /\ UNCHANGED <<now, config, nextTok, logins>>

\* ------------------------------------------------------------------ environment

\* one second passes
Tick ==
    /\ now < MaxTime
    /\ now' = now + 1
    /\ ret' = NoRet
    /\ UNCHANGED <<data, config, nextTok, renewals, logins>>

\* one round of Storage.cleanup
Cleanup ==
    /\ data' = cleanup(data, now)
    /\ ret' = NoRet
    /\ UNCHANGED <<now, config, nextTok, renewals, logins>>

\* ------------------------------------------------------------------ history

\* hist[t] for an issued token t: the pair it was issued to, the time of the last
\* call that found it valid (kept while it matters: an inactivity timeout is
\* configured and nothing has happened to the token yet), and what has happened
\* to it:
\*   "expired"  its storage entry passed its expiration
\*   "idle"     more than ActiveTimeout went by since the last call that found it valid
\*   "revoked"  Logout or Kickout of its pair, LogoutByToken of it, or the
\*              eviction by a Login of its pair ran
\*   "logout"   Logout or Kickout ran while the pair's mapping named it
\*   "idleOut"  IsLogin took it for inactive and logged it out
mark(h, S, c) ==
    [t \in DOMAIN h |->
        IF t \in S THEN [h[t] EXCEPT !.causes = @ \cup {c}, !.lastValid = 0] ELSE h[t]]

validAt(t) == IF config.ActiveTimeout > 0 THEN t ELSE 0

tokensOf(h, loginID, device) ==
    {t \in DOMAIN h : h[t].loginID = loginID /\ h[t].device = device}

histLogin(loginID, device) ==
    IF IsDisable(data, loginID, now) THEN hist
    ELSE LET h == IF ~config.IsConcurrent
                  THEN mark(hist, tokensOf(hist, loginID, device), "revoked")
                  ELSE hist
             tokenValue == Token(nextTok + 1)
         IN  [t \in DOMAIN h \cup {tokenValue} |->
                IF t = tokenValue
                THEN [loginID |-> loginID, device |-> device,
                      lastValid |-> validAt(now), causes |-> {}]
                ELSE h[t]]

histLogout(loginID, device) ==
    mark(mark(hist, tokensOf(hist, loginID, device), "revoked"),
         {mapped(data, loginID, device, now)}, "logout")

histLogoutByToken(tokenValue) == mark(hist, {tokenValue}, "revoked")

histIsLogin(tokenValue) ==
    LET found == TokenStatus(data, tokenValue, now)
    IN  IF found = "valid" /\ tokenValue \in DOMAIN hist
             /\ hist[tokenValue].causes = {}
        THEN [hist EXCEPT ![tokenValue].lastValid = validAt(now)]
        ELSE IF found = "idle" THEN mark(hist, {tokenValue}, "idleOut")
        ELSE hist

histTick ==
    LET expired == {t \in DOMAIN hist :
                      /\ getTokenKey(t) \in DOMAIN data
                      /\ isExpired(data[getTokenKey(t)], now + 1)}
        idle == {t \in DOMAIN hist :
                      /\ config.ActiveTimeout > 0
                      /\ hist[t].causes = {}
                      /\ (now + 1) - hist[t].lastValid > config.ActiveTimeout}
    IN  mark(mark(hist, expired, "expired"), idle, "idle")

\* ------------------------------------------------------------------ specifications

\* Calls arrive at any moment; the renewal goroutines run in between.
Next ==
    \/ \E loginID \in LoginIDs, device \in Devices :
          Login(loginID, device) /\ hist' = histLogin(loginID, device) /\ UNCHANGED <<nm, oa>>
    \/ \E loginID \in LoginIDs, device \in Devices :
          Logout(loginID, device) /\ hist' = histLogout(loginID, device) /\ UNCHANGED <<nm, oa>>
    \/ \E tokenValue \in Issued :
          LogoutByToken(tokenValue) /\ hist' = histLogoutByToken(tokenValue) /\ UNCHANGED <<nm, oa>>
    \/ \E loginID \in LoginIDs, device \in Devices :
          Kickout(loginID, device) /\ hist' = histLogout(loginID, device) /\ UNCHANGED <<nm, oa>>
    \/ \E tokenValue \in Issued \cup {""} :
          IsLogin(tokenValue) /\ hist' = histIsLogin(tokenValue) /\ UNCHANGED <<nm, oa>>
    \/ \E tokenValue \in Issued \cup {""} :
          GetLoginID(tokenValue) /\ hist' = histIsLogin(tokenValue) /\ UNCHANGED <<nm, oa>>
    \/ \E r \in BagToSet(renewals) : RenewExpire(r) /\ UNCHANGED <<hist, nm, oa>>
    \/ \E r \in BagToSet(renewals) : RenewGet(r) /\ UNCHANGED <<hist, nm, oa>>
    \/ \E r \in BagToSet(renewals) : RenewSave(r) /\ UNCHANGED <<hist, nm, oa>>
    \/ Cleanup /\ UNCHANGED <<hist, nm, oa>>
    \/ Tick /\ hist' = histTick /\ UNCHANGED <<nm, oa>>

Spec == Init /\ [][Next]_vars

\* Login calls overlap: each runs statement by statement.
NextLogin ==
    \/ \E loginID \in LoginIDs, device \in Devices : LoginCall(loginID, device) /\ UNCHANGED <<nm, oa>>
    \/ \E c \in BagToSet(logins) : LoginKickoutGet(c) /\ UNCHANGED <<nm, oa>>
    \/ \E c \in BagToSet(logins) : LoginKickoutDelete(c) /\ UNCHANGED <<nm, oa>>
    \/ \E c \in BagToSet(logins) : LoginGenerate(c) /\ UNCHANGED <<nm, oa>>
    \/ \E c \in BagToSet(logins) : LoginSaveTokenInfo(c) /\ UNCHANGED <<nm, oa>>
    \/ \E c \in BagToSet(logins) : LoginSetAccount(c) /\ UNCHANGED <<nm, oa>>
    \/ \E c \in BagToSet(logins) : LoginSession(c) /\ UNCHANGED <<nm, oa>>
    \/ Cleanup /\ UNCHANGED <<hist, nm, oa>>
    \/ Tick /\ UNCHANGED <<hist, nm, oa>>

SpecLogin == Init /\ [][NextLogin]_vars

\* Calls arrive one at a time and each finds no renewal goroutine half-way.
NextSeq ==
    \/ \E loginID \in LoginIDs, device \in Devices :
          renewals = EmptyBag /\ Login(loginID, device) /\ UNCHANGED <<hist, nm, oa>>
    \/ \E loginID \in LoginIDs, device \in Devices :
          renewals = EmptyBag /\ Logout(loginID, device) /\ UNCHANGED <<hist, nm, oa>>
    \/ \E tokenValue \in Issued :
          renewals = EmptyBag /\ LogoutByToken(tokenValue) /\ UNCHANGED <<hist, nm, oa>>
    \/ \E loginID \in LoginIDs, device \in Devices :
          renewals = EmptyBag /\ Kickout(loginID, device) /\ UNCHANGED <<hist, nm, oa>>
    \/ \E tokenValue \in Issued \cup {""} :
          renewals = EmptyBag /\ IsLogin(tokenValue) /\ UNCHANGED <<hist, nm, oa>>
    \/ \E tokenValue \in Issued \cup {""} :
          renewals = EmptyBag /\ GetLoginID(tokenValue) /\ UNCHANGED <<hist, nm, oa>>
    \/ \E r \in BagToSet(renewals) : RenewExpire(r) /\ UNCHANGED <<hist, nm, oa>>
    \/ \E r \in BagToSet(renewals) : RenewGet(r) /\ UNCHANGED <<hist, nm, oa>>
    \/ \E r \in BagToSet(renewals) : RenewSave(r) /\ UNCHANGED <<hist, nm, oa>>
    \/ Cleanup /\ UNCHANGED <<hist, nm, oa>>
    \/ Tick /\ UNCHANGED <<hist, nm, oa>>

SpecSeq == Init /\ [][NextSeq]_vars

\* Calls that validate a token, tag it or set the principal's permissions and
\* roles; the renewal goroutines run in between.
NextTag ==
    \/ \E loginID \in LoginIDs, device \in Devices :
          Login(loginID, device) /\ UNCHANGED <<hist, nm, oa>>
    \/ \E tokenValue \in Issued : IsLogin(tokenValue) /\ UNCHANGED <<hist, nm, oa>>
    \/ \E tokenValue \in Issued : GetLoginID(tokenValue) /\ UNCHANGED <<hist, nm, oa>>
    \/ \E tokenValue \in Issued, tag \in Tags :
          SetTokenTag(tokenValue, tag) /\ UNCHANGED <<hist, nm, oa>>
    \/ \E loginID \in LoginIDs, permissions \in PermissionLists :
          SetPermissions(loginID, permissions) /\ UNCHANGED <<hist, nm, oa>>
    \/ \E loginID \in LoginIDs, roles \in RoleLists :
          SetRoles(loginID, roles) /\ UNCHANGED <<hist, nm, oa>>
    \/ \E r \in BagToSet(renewals) : RenewExpire(r) /\ UNCHANGED <<hist, nm, oa>>
    \/ \E r \in BagToSet(renewals) : RenewGet(r) /\ UNCHANGED <<hist, nm, oa>>
    \/ \E r \in BagToSet(renewals) : RenewSave(r) /\ UNCHANGED <<hist, nm, oa>>
    \/ Cleanup /\ UNCHANGED <<hist, nm, oa>>
    \/ Tick /\ UNCHANGED <<hist, nm, oa>>

SpecTag == Init /\ [][NextTag]_vars

\* Accounts are disabled and untied between Login, Kickout and LogoutByToken calls.
NextDisable ==
    \/ \E loginID \in LoginIDs, device \in Devices :
          Login(loginID, device) /\ UNCHANGED <<hist, nm, oa>>
    \/ \E loginID \in LoginIDs, duration \in DisableDurations :
          Disable(loginID, duration) /\ UNCHANGED <<hist, nm, oa>>
    \/ \E loginID \in LoginIDs : Untie(loginID) /\ UNCHANGED <<hist, nm, oa>>
    \/ \E loginID \in LoginIDs, device \in Devices :
          Kickout(loginID, device) /\ UNCHANGED <<hist, nm, oa>>
    \/ \E tokenValue \in Issued : LogoutByToken(tokenValue) /\ UNCHANGED <<hist, nm, oa>>
    \/ Cleanup /\ UNCHANGED <<hist, nm, oa>>
    \/ Tick /\ UNCHANGED <<hist, nm, oa>>

SpecDisable == Init /\ [][NextDisable]_vars

\* One principal logs in and out on several devices; the device argument may be
\* left out.
NextDevice ==
    \/ \E loginID \in LoginIDs, device \in DeviceArgs :
          Login(loginID, deviceType(device)) /\ UNCHANGED <<hist, nm, oa>>
    \/ \E loginID \in LoginIDs, device \in DeviceArgs :
          Logout(loginID, deviceType(device)) /\ UNCHANGED <<hist, nm, oa>>
    \/ \E loginID \in LoginIDs, device \in DeviceArgs :
          Kickout(loginID, deviceType(device)) /\ UNCHANGED <<hist, nm, oa>>
    \/ Cleanup /\ UNCHANGED <<hist, nm, oa>>
    \/ Tick /\ UNCHANGED <<hist, nm, oa>>

SpecDevice == Init /\ [][NextDevice]_vars

\* Nonces are generated and verified by several callers at once.
NextNonce ==
    \/ Generate
    \/ \E v \in 1..MaxVerify, nonce \in Generated \cup {"", Nonce(0)} : VerifyCall(v, nonce)
    \/ \E v \in 1..MaxVerify : VerifyLock(v)
    \/ \E v \in 1..MaxVerify : VerifyExists(v)
    \/ \E v \in 1..MaxVerify : VerifyDelete(v)
    \/ Cleanup /\ UNCHANGED <<hist, nm, oa>>
    \/ Tick /\ UNCHANGED <<hist, nm, oa>>

SpecNonce == Init /\ [][NextNonce]_vars

\* The OAuth2Server reads no field of the Config: its runs start from one
\* configuration of the manager.
InitOAuth2 ==
    /\ Init
    /\ config = [Timeout |-> 0, ActiveTimeout |-> -1, IsConcurrent |-> TRUE,
                 AutoRenew |-> TRUE]

\* The oauth2 server, one call at a time.
NextOAuth2 ==
    \/ \E clientID \in ClientArgs, redirectURI \in RedirectArgs, userID \in UserIDs,
          scopes \in ScopeLists :
          GenerateAuthorizationCode(clientID, redirectURI, userID, scopes)
    \/ \E code \in Codes \cup {Code(0)}, clientID \in ClientArgs,
          clientSecret \in SecretArgs, redirectURI \in RedirectArgs :
          ExchangeCodeForToken(code, clientID, clientSecret, redirectURI)
    \/ \E tokenString \in AccessTokens \cup {AccessTokenValue(0)} :
          ValidateAccessToken(tokenString)
    \/ \E refreshToken \in RefreshTokens \cup {RefreshTokenValue(0)},
          clientID \in ClientArgs, clientSecret \in SecretArgs :
          RefreshAccessToken(refreshToken, clientID, clientSecret)
    \/ \E tokenString \in AccessTokens \cup {AccessTokenValue(0)} : RevokeToken(tokenString)
    \/ \E d \in Sleeps : Sleep(d)
    \/ Cleanup /\ UNCHANGED <<hist, nm, oa>>

SpecOAuth2 == InitOAuth2 /\ [][NextOAuth2]_vars

\* Several callers exchange codes at once.
NextExchange ==
    \/ \E clientID \in ClientArgs, redirectURI \in RedirectArgs, userID \in UserIDs,
          scopes \in ScopeLists :
          GenerateAuthorizationCode(clientID, redirectURI, userID, scopes)
    \/ \E x \in 1..MaxExchanges, code \in Codes \cup {Code(0)}, clientID \in ClientArgs,
          clientSecret \in SecretArgs, redirectURI \in RedirectArgs :
          ExchangeCall(x, code, clientID, clientSecret, redirectURI)
    \/ \E x \in 1..MaxExchanges : ExchangeUsed(x)
    \/ \E x \in 1..MaxExchanges : ExchangeGenerate(x)
    \/ \E d \in Sleeps : Sleep(d)
    \/ Cleanup /\ UNCHANGED <<hist, nm, oa>>

SpecExchange == InitOAuth2 /\ [][NextExchange]_vars

\* Permissions are stored and asked for, one call at a time; neither reads the
\* Config.
NextPerm ==
    \/ \E loginID \in LoginIDs, permissions \in PatternLists :
          SetPermissions(loginID, permissions) /\ UNCHANGED <<hist, nm, oa>>
    \/ \E loginID \in QueryLoginIDs, permission \in Strings \cup ChosenQueries :
          HasPermission(loginID, permission) /\ UNCHANGED <<hist, nm, oa>>

SpecPerm == InitOAuth2 /\ [][NextPerm]_vars

\* Permissions and roles are stored and asked for singly and in lists.
NextRole ==
    \/ \E loginID \in LoginIDs, permissions \in {<<p>> : p \in ChosenPatterns} :
          SetPermissions(loginID, permissions) /\ UNCHANGED <<hist, nm, oa>>
    \/ \E loginID \in LoginIDs, roles \in RoleArgLists :
          SetRoles(loginID, roles) /\ UNCHANGED <<hist, nm, oa>>
    \/ \E loginID \in QueryLoginIDs, permission \in ChosenQueries :
          HasPermission(loginID, permission) /\ UNCHANGED <<hist, nm, oa>>
    \/ \E loginID \in QueryLoginIDs, permissions \in QueryLists :
          HasPermissionsAnd(loginID, permissions) /\ UNCHANGED <<hist, nm, oa>>
    \/ \E loginID \in QueryLoginIDs, permissions \in QueryLists :
          HasPermissionsOr(loginID, permissions) /\ UNCHANGED <<hist, nm, oa>>
    \/ \E loginID \in QueryLoginIDs, role \in RoleArgs :
          HasRole(loginID, role) /\ UNCHANGED <<hist, nm, oa>>
    \/ \E loginID \in QueryLoginIDs, roles \in RoleArgLists :
          HasRolesAnd(loginID, roles) /\ UNCHANGED <<hist, nm, oa>>
    \/ \E loginID \in QueryLoginIDs, roles \in RoleArgLists :
          HasRolesOr(loginID, roles) /\ UNCHANGED <<hist, nm, oa>>

SpecRole == InitOAuth2 /\ [][NextRole]_vars

\* Several callers set attributes of one principal's Session at once.
NextSession ==
    \/ \E loginID \in LoginIDs, permissions \in PermissionLists :
          /\ GetSessionCall("SetPermissions", loginID, "permissions", permissions)
          /\ UNCHANGED <<hist, nm, oa>>
    \/ \E loginID \in LoginIDs, roles \in RoleLists :
          /\ GetSessionCall("SetRoles", loginID, "roles", roles)
          /\ UNCHANGED <<hist, nm, oa>>
    \/ \E loginID \in LoginIDs, key \in CustomKeys, value \in CustomValues :
          /\ GetSessionCall("Set", loginID, key, value)
          /\ UNCHANGED <<hist, nm, oa>>
    \/ \E c \in BagToSet(logins) : SessionSetCall(c) /\ histSet(c) /\ UNCHANGED <<nm, oa>>
    \/ Tick /\ UNCHANGED <<hist, nm, oa>>

SpecSession == InitOAuth2 /\ [][NextSession]_vars

\* The manager's login and logout calls, one at a time, on a storage that can
\* fail.
NextFaulty ==
    \/ \E loginID \in LoginIDs, device \in Devices, failing \in SUBSET LoginCalls :
          LoginF(loginID, device, failing) /\ UNCHANGED <<nm, oa>>
    \/ \E loginID \in LoginIDs, device \in Devices, failing \in SUBSET LogoutCalls :
          LogoutF(loginID, device, failing) /\ UNCHANGED <<nm, oa>>
    \/ \E tokenValue \in Issued, failing \in SUBSET LogoutByTokenCalls :
          LogoutByTokenF(tokenValue, failing) /\ UNCHANGED <<nm, oa>>
    \/ \E loginID \in LoginIDs, device \in Devices, failing \in SUBSET kickoutCalls :
          KickoutF(loginID, device, failing) /\ UNCHANGED <<nm, oa>>
    \/ Tick /\ hist' = failedCalls({}) /\ UNCHANGED <<nm, oa>>

SpecFaulty == Init /\ [][NextFaulty]_vars

\* The in-memory storage alone, one call at a time, with its cleanup goroutine.
NextStorage ==
    \/ \E key \in KeyArgs, expiration \in StorageTTLs : StorageSet(key, "v1", expiration)
    \/ \E key \in KeyArgs : StorageGet(key)
    \/ \E key \in KeyArgs : StorageDelete(key)
    \/ \E key \in KeyArgs : StorageExists(key)
    \/ \E pattern \in KeyPatterns : StorageKeys(pattern)
    \/ \E key \in KeyArgs : StorageTTL(key)
    \/ Tick /\ UNCHANGED <<hist, nm, oa>>
    \/ Cleanup /\ UNCHANGED <<hist, nm, oa>>

SpecStorage == InitOAuth2 /\ [][NextStorage]_vars

\* The goroutine IsLogin starts is scheduled sooner or later.
Renew ==
    \E r \in BagToSet(renewals) :
        (RenewExpire(r) \/ RenewGet(r) \/ RenewSave(r)) /\ UNCHANGED <<hist, nm, oa>>

SpecSeqFair == SpecSeq /\ WF_vars(Renew)

\* Two principals, one call at a time, with LoginByToken among the calls.
NextByToken ==
    \/ \E loginID \in QueryLoginIDs, device \in Devices :
          Login(loginID, device) /\ UNCHANGED <<hist, nm, oa>>
    \/ \E loginID \in QueryLoginIDs, tokenValue \in Issued, device \in Devices :
          LoginByToken(loginID, tokenValue, device) /\ UNCHANGED <<hist, nm, oa>>
    \/ \E loginID \in QueryLoginIDs, device \in Devices :
          Logout(loginID, device) /\ UNCHANGED <<hist, nm, oa>>
    \/ \E tokenValue \in Issued : LogoutByToken(tokenValue) /\ UNCHANGED <<hist, nm, oa>>
    \/ \E loginID \in QueryLoginIDs, device \in Devices :
          Kickout(loginID, device) /\ UNCHANGED <<hist, nm, oa>>
    \/ Tick /\ UNCHANGED <<hist, nm, oa>>

SpecByToken == Init /\ [][NextByToken]_vars

\* Login IDs that hold a colon, one call at a time, with the two list queries.
NextList ==
    \/ \E loginID \in ColonLoginIDs, device \in Devices :
          Login(loginID, device) /\ UNCHANGED <<hist, nm, oa>>
    \/ \E loginID \in ColonLoginIDs, device \in Devices :
          Logout(loginID, device) /\ UNCHANGED <<hist, nm, oa>>
    \/ \E tokenValue \in Issued : LogoutByToken(tokenValue) /\ UNCHANGED <<hist, nm, oa>>
    \/ \E loginID \in ColonLoginIDs, device \in Devices :
          Kickout(loginID, device) /\ UNCHANGED <<hist, nm, oa>>
    \/ \E loginID \in ColonLoginIDs :
          GetTokenValueListByLoginID(loginID) /\ UNCHANGED <<hist, nm, oa>>
    \/ \E loginID \in ColonLoginIDs :
          GetSessionCountByLoginID(loginID) /\ UNCHANGED <<hist, nm, oa>>
    \/ Tick /\ UNCHANGED <<hist, nm, oa>>

SpecList == Init /\ [][NextList]_vars

\* The in-memory storage with Expire among its calls.
NextExpire ==
    \/ \E key \in KeyArgs, expiration \in StorageTTLs : StorageSet(key, "v1", expiration)
    \/ \E key \in KeyArgs : StorageGet(key)
    \/ \E key \in KeyArgs : StorageDelete(key)
    \/ \E key \in KeyArgs : StorageExists(key)
    \/ \E key \in KeyArgs, expiration \in StorageTTLs : StorageExpire(key, expiration)
    \/ Tick /\ UNCHANGED <<hist, nm, oa>>
    \/ Cleanup /\ UNCHANGED <<hist, nm, oa>>

SpecExpire == InitOAuth2 /\ [][NextExpire]_vars

\* The grants of the oauth2 server with scopes the client is not registered for
\* among the requests.
NextScopes ==
    \/ \E clientID \in ClientArgs, redirectURI \in RedirectArgs, userID \in UserIDs,
          scopes \in ScopeArgs :
          GenerateAuthorizationCode(clientID, redirectURI, userID, scopes)
    \/ \E code \in Codes \cup {Code(0)}, clientID \in ClientArgs,
          clientSecret \in SecretArgs, redirectURI \in RedirectArgs :
          ExchangeCodeForToken(code, clientID, clientSecret, redirectURI)
    \/ \E tokenString \in AccessTokens \cup {AccessTokenValue(0)} :
          ValidateAccessToken(tokenString)
    \/ \E refreshToken \in RefreshTokens \cup {RefreshTokenValue(0)},
          clientID \in ClientArgs, clientSecret \in SecretArgs :
          RefreshAccessToken(refreshToken, clientID, clientSecret)

SpecScopes == InitOAuth2 /\ [][NextScopes]_vars

\* ------------------------------------------------------------------ properties

\* the issued tokens whose TokenInfo on storage d names (loginID, device)
tokensNaming(d, loginID, device, t) ==
    {tok \in Issued :
        LET info == getTokenInfo(d, tok, t)
        IN  info # Nil /\ info.LoginID = loginID /\ info.Device = device}

\* C1: after Login(P,D) returned token t, IsLogin(t) is true at every later
\* moment unless the storage entry of t has run out (Timeout), more than
\* ActiveTimeout has gone by since the last call that found t valid, or t was
\* logged out or kicked out (Logout/Kickout of its pair, LogoutByToken of t, the
\* eviction by a later Login of its pair).
C1_ValidUntil ==
    \A t \in DOMAIN hist :
        hist[t].causes \cap {"expired", "idle", "revoked"} = {}
            => IsLoginRet(data, t, now)

\* C2: once Logout(P,D) or Kickout(P,D) has run while the (P,D) mapping named
\* token t, IsLogin(t) is false from then on, whatever a renewal goroutine that
\* is still running does.
C2_LogoutStays ==
    \A t \in DOMAIN hist :
        "logout" \in hist[t].causes => ~IsLoginRet(data, t, now)

\* C3: a token whose storage entry has expired is never valid again, whatever
\* the renewal goroutine that IsLogin started before the expiry does afterwards.
C3_ExpiredStays ==
    \A t \in DOMAIN hist :
        "expired" \in hist[t].causes => ~IsLoginRet(data, t, now)

\* C4: with concurrent login disabled, whenever no Login call is half-way, at
\* most one live token has a TokenInfo naming (P,D), and it is the token the
\* (P,D) mapping names; Login calls for the same pair may have overlapped.
C4_OneLiveToken ==
    (~config.IsConcurrent /\ logins = EmptyBag) =>
        \A loginID \in LoginIDs, device \in Devices :
            LET live == tokensNaming(data, loginID, device, now)
            IN  /\ Cardinality(live) <= 1
                /\ \A t \in live : mapped(data, loginID, device, now) = t

\* C5: with concurrent login disabled, a Login(P,D) that runs alone while the
\* (P,D) mapping names a live token t1 and returns t2 leaves IsLogin(t1) false,
\* IsLogin(t2) true and the mapping naming t2.
C5_LoginEvicts ==
    [][\A loginID \in LoginIDs, device \in Devices :
        LET t1 == mapped(data, loginID, device, now)
            t2 == ret'.value
        IN  (/\ Login(loginID, device)
             /\ ~config.IsConcurrent
             /\ IsLoginRet(data, t1, now)
             /\ ret'.err = "")
            => /\ t2 # "" /\ t2 # t1
               /\ ~IsLoginRet(data', t1, now')
               /\ IsLoginRet(data', t2, now')
               /\ mapped(data', loginID, device, now') = t2]_vars

\* a Login that has just returned a token after evicting the live token the
\* mapping named
C5_Witness ==
    /\ ~config.IsConcurrent
    /\ ret.op = "Login" /\ ret.err = ""
    /\ ret.token # "" /\ ret.found = "valid"
    /\ ret.value # ret.token

\* C6: Logout(P,D) returns no error; when the (P,D) mapping names a token it
\* removes the mapping and that token's TokenInfo; a Logout(P,D) made right after
\* a Logout(P,D) changes no stored record.
C6_LogoutIdempotent ==
    [][\A loginID \in LoginIDs, device \in Devices :
        LET t == mapped(data, loginID, device, now)
        IN  Logout(loginID, device)
            => /\ ret'.err = ""
               /\ t # "" => /\ getAccountKey(loginID, device) \notin DOMAIN data'
                            /\ getTokenKey(t) \notin DOMAIN data'
               /\ (ret.op = "Logout" /\ ret.loginID = loginID /\ ret.device = device)
                     => data' = data]_vars

\* the first Logout has just removed a live token; the second call starts here
C6_Witness ==
    /\ ret.op = "Logout" /\ ret.err = ""
    /\ ret.token # "" /\ ret.found = "valid"
    /\ getTokenKey(ret.token) \notin DOMAIN data

\* C7: when Logout(P,D) returns, no TokenInfo with LoginID = P and Device = D
\* is left in storage.
C7_NoTokenInfoLeft ==
    [][\A loginID \in LoginIDs, device \in Devices :
        Logout(loginID, device)
            => tokensNaming(data', loginID, device, now') = {}]_vars

\* C8: Kickout(P,D) removes the TokenInfo of the token the (P,D) mapping names
\* and leaves the mapping as it was, so IsLogin of that token is false; a
\* Login(P,D) made right after it (the account not being disabled) returns
\* without error a new token that is valid.
C8_KickoutKeepsMapping ==
    [][\A loginID \in LoginIDs, device \in Devices :
        LET t == mapped(data, loginID, device, now)
            accountKey == getAccountKey(loginID, device)
        IN  /\ (Kickout(loginID, device) /\ t # "")
               => /\ ret'.err = ""
                  /\ getTokenKey(t) \notin DOMAIN data'
                  /\ accountKey \in DOMAIN data'
                  /\ data'[accountKey] = data[accountKey]
                  /\ ~IsLoginRet(data', t, now')
            /\ (/\ Login(loginID, device)
                /\ ret.op = "Kickout" /\ ret.loginID = loginID /\ ret.device = device
                /\ ret.token # ""
                /\ ~IsDisable(data, loginID, now))
               => /\ ret'.err = ""
                  /\ ret'.value \notin Issued \cup {""}
                  /\ IsLoginRet(data', ret'.value, now')]_vars

\* Kickout has just removed a live token, the mapping still names it, and a
\* Login can follow
C8_Witness ==
    /\ ret.op = "Kickout" /\ ret.token # "" /\ ret.found = "valid"
    /\ mapped(data, ret.loginID, ret.device, now) = ret.token
    /\ getTokenKey(ret.token) \notin DOMAIN data
    /\ nextTok < MaxTokens

\* C9: GetLoginID(t) returns the error "not login" and no LoginID when t's
\* TokenInfo is absent or expired or t has been inactive for more than
\* ActiveTimeout; when it returns a LoginID, it is the stored one and IsLogin(t)
\* held at the call.
C9_GetLoginIDChecks ==
    [][\A t \in Issued \cup {""} :
        LET key == getTokenKey(t)
            gone == t = "" \/ key \notin DOMAIN data \/ isExpired(data[key], now)
            inactive == /\ ~gone
                        /\ config.ActiveTimeout > 0
                        /\ now - data[key].value.activeTime > config.ActiveTimeout
        IN  GetLoginID(t)
            => /\ (gone \/ inactive) => (ret'.value = "" /\ ret'.err = "not login")
               /\ ret'.value # "" => /\ ret'.err = ""
                                     /\ ~gone /\ ~inactive
                                     /\ ret'.value = data[key].value.loginId]_vars

\* GetLoginID has just refused a token that was stored, unexpired and inactive
C9_Witness ==
    /\ ret.op = "GetLoginID" /\ ret.token # "" /\ ret.found = "idle"
    /\ ret.value = "" /\ ret.err = "not login"

\* C10: an IsLogin(t) call that finds t inactive for more than ActiveTimeout
\* returns false and removes t's TokenInfo, and IsLogin(t) is false from then on.
C10_IdleLogoutStays ==
    /\ (ret.op = "IsLogin" /\ ret.found = "idle")
          => (ret.value = "false" /\ getTokenKey(ret.token) \notin DOMAIN data)
    /\ \A t \in DOMAIN hist :
          "idleOut" \in hist[t].causes => ~IsLoginRet(data, t, now)

\* C11: with auto-renew disabled and Timeout T > 0, no token is reported valid by
\* IsLogin more than T seconds after the Login that issued it (its CreateTime),
\* whatever IsLogin, GetLoginID, SetTokenTag, SetPermissions and SetRoles calls
\* were made.
C11_HardTimeout ==
    (~config.AutoRenew /\ config.Timeout > 0) =>
        \A t \in Issued :
            IsLoginRet(data, t, now)
                => now - getTokenInfo(data, t, now).CreateTime <= config.Timeout

\* C12: with auto-renew enabled and Timeout T > 0, an IsLogin(t) that returns
\* true starts a renewal; the renewal's Expire on a stored token sets its
\* expiration to now + T, and its saveTokenInfo on a token that is still present
\* sets the expiration to now + T and writes the ActiveTime it took, leaving
\* LoginID, Device, CreateTime and Tag of the stored TokenInfo as they were.
C12_RenewalFrame ==
    [][/\ \A t \in Issued :
            (IsLogin(t) /\ ret'.value = "true" /\ config.AutoRenew /\ config.Timeout > 0)
                => BagIn(NewRenewal(t), renewals')
       /\ \A r \in BagToSet(renewals) :
            LET key == getTokenKey(r.tokenValue)
                old == getTokenInfo(data, r.tokenValue, now)
                new == getTokenInfo(data', r.tokenValue, now')
            IN  /\ (RenewExpire(r) /\ old # Nil)
                   => (data'[key].expiration = now + config.Timeout /\ new = old)
                /\ (RenewSave(r) /\ old # Nil)
                   => /\ new # Nil
                      /\ data'[key].expiration = now + config.Timeout
                      /\ new.ActiveTime = r.info.ActiveTime
                      /\ new.LoginID = old.LoginID
                      /\ new.Device = old.Device
                      /\ new.CreateTime = old.CreateTime
                      /\ new.Tag = old.Tag]_vars

\* C13: a Login(P,D) made while P's disable record is stored and unexpired
\* returns the account-disabled error, no token, and changes no stored record
\* (nothing is written, no token is evicted); a Login(P,D) made while there is no
\* such record, or it has expired, succeeds with a valid token; after Untie(P)
\* there is no such record.
C13_DisabledLogin ==
    [][\A loginID \in LoginIDs :
        LET key == getDisableKey(loginID)
            disabled == key \in DOMAIN data /\ ~isExpired(data[key], now)
        IN  /\ \A device \in Devices :
                /\ (Login(loginID, device) /\ disabled)
                   => /\ ret'.err = "account is disabled"
                      /\ ret'.value = ""
                      /\ data' = data
                      /\ nextTok' = nextTok
                /\ (Login(loginID, device) /\ ~disabled)
                   => /\ ret'.err = ""
                      /\ ret'.value \notin Issued \cup {""}
                      /\ IsLoginRet(data', ret'.value, now')
            /\ Untie(loginID) => key \notin DOMAIN data']_vars

\* a Login has just been refused for a disabled account whose token, named by
\* the mapping, is still valid although concurrent login is off
C13_Witness ==
    /\ ret.op = "Login" /\ ret.err = "account is disabled"
    /\ ~config.IsConcurrent
    /\ ret.token # "" /\ ret.found = "valid"
    /\ IsLoginRet(data, ret.token, now)

\* C14: LogoutByToken(t) removes the TokenInfo of t and nothing else: every
\* other stored record (account mappings, the one naming t included, other
\* TokenInfos, Sessions, disable records) is as before, and IsLogin(t) is false
\* when the call has returned.
C14_LogoutByTokenFrame ==
    [][\A t \in Issued :
        LogoutByToken(t)
            => /\ DOMAIN data' = DOMAIN data \ {getTokenKey(t)}
               /\ \A k \in DOMAIN data' : data'[k] = data[k]
               /\ ~IsLoginRet(data', t, now')
               /\ ret'.err = ""]_vars

\* LogoutByToken has just removed a valid token; the mapping that names it, a
\* disable record, the Session and another valid token are still stored
C14_Witness ==
    /\ ret.op = "LogoutByToken" /\ ret.found = "valid"
    /\ \E loginID \in LoginIDs :
          /\ \E device \in Devices : mapped(data, loginID, device, now) = ret.token
          /\ getDisableKey(loginID) \in DOMAIN data
          /\ getSessionKey(loginID) \in DOMAIN data
    /\ \E t \in Issued : t # ret.token /\ IsLoginRet(data, t, now)

\* C15: a Login, Logout or Kickout of (P,D1), D1 being "default" when the device
\* argument is left out, leaves the mapping of (P,D2) and every TokenInfo naming
\* (P,D2) as they were for every D2 # D1, so IsLogin of the tokens of (P,D2)
\* answers as before.
C15_DevicesIndependent ==
    [][\A loginID \in LoginIDs, device \in DeviceArgs :
        LET D1 == deviceType(device)
        IN  (\/ Login(loginID, D1) \/ Logout(loginID, D1) \/ Kickout(loginID, D1))
            => \A D2 \in {deviceType(a) : a \in DeviceArgs} \ {D1} :
                 LET accountKey == getAccountKey(loginID, D2)
                 IN  /\ accountKey \in DOMAIN data' <=> accountKey \in DOMAIN data
                     /\ accountKey \in DOMAIN data => data'[accountKey] = data[accountKey]
                     /\ \A t \in tokensNaming(data, loginID, D2, now) :
                          /\ getTokenKey(t) \in DOMAIN data'
                          /\ data'[getTokenKey(t)] = data[getTokenKey(t)]
                          /\ IsLoginRet(data', t, now') = IsLoginRet(data, t, now)
                     /\ tokensNaming(data', loginID, D2, now')
                          = tokensNaming(data, loginID, D2, now)]_vars

\* a Logout without device argument has just removed the valid token of
\* (P, "default") while the mapping of (P, "web") names a valid token
C15_Witness ==
    /\ ret.op = "Logout" /\ ret.device = deviceType(<<>>)
    /\ ret.token # "" /\ ret.found = "valid"
    /\ LET t == mapped(data, ret.loginID, "web", now)
       IN  /\ t # ""
           /\ IsLoginRet(data, t, now)
           /\ getTokenInfo(data, t, now).Device = "web"

\* C16: for every generated nonce at most one Verify call returns true, however
\* the Verify calls overlap; a Verify that finds the nonce stored and unexpired
\* returns true, and a Verify of an empty, never generated, consumed or expired
\* nonce returns false.
C16_NonceSingleUse ==
    [][/\ \A nonce \in DOMAIN nm'.trues : nm'.trues[nonce] <= 1
       /\ \A v \in DOMAIN nm'.calls : nm'.calls[v].pc = "Delete" => nm'.mu = v
       /\ \A v \in 1..MaxVerify :
            /\ VerifyCall(v, "") => ret'.value = "false"
            /\ VerifyExists(v) =>
                 LET key == getNonceKey(nm.calls[v].nonce)
                     stored == key \in DOMAIN data /\ ~isExpired(data[key], now)
                 IN  /\ ~stored => (ret'.op = "Verify" /\ ret'.value = "false")
                     /\ stored => nm'.calls[v].pc = "Delete"
            /\ VerifyDelete(v) =>
                 /\ ret'.op = "Verify" /\ ret'.value = "true"
                 /\ nm.calls[v].nonce \in Generated
                 /\ getNonceKey(nm.calls[v].nonce) \notin DOMAIN data']_vars

\* one Verify has returned true for a nonce and another Verify of the same nonce,
\* called before that, is still in progress
C16_Witness ==
    \E nonce \in DOMAIN nm.trues :
        /\ nm.trues[nonce] = 1
        /\ \E v \in DOMAIN nm.calls : nm.calls[v].nonce = nonce /\ nm.calls[v].pc = "Lock"


\* ------------------------------------------------------------------ oauth2 claims

\* the parameters the code was issued with, and its client's secret
validFor(code, clientID, clientSecret, redirectURI) ==
    /\ code \in DOMAIN oa.heap
    /\ clientID = oa.heap[code].ClientID
    /\ clientSecret = oa.clients[clientID].ClientSecret
    /\ redirectURI = oa.heap[code].RedirectURI

\* C17: an ExchangeCodeForToken for a code that an earlier exchange returned a
\* token for, made with the code's client, secret and redirect URI while the
\* storage still holds the code, returns "authorization code already used" and
\* writes nothing: no token is generated.
C17_SecondExchangeUsed ==
    [][\A code \in Codes, clientID \in ClientArgs, clientSecret \in SecretArgs,
          redirectURI \in RedirectArgs :
          /\ validFor(code, clientID, clientSecret, redirectURI)
          /\ oa.issued[code] >= 1
          /\ Exists(data, getCodeKey(code), now)
          /\ ExchangeCodeForToken(code, clientID, clientSecret, redirectURI)
          => /\ ret'.err = "authorization code already used"
             /\ ret'.value = ""
             /\ oa' = oa
             /\ data' = data]_vars

\* a second exchange of an exchanged code has just been refused as already used
C17_Witness ==
    /\ ret.op = "ExchangeCodeForToken"
    /\ ret.err = "authorization code already used"
    /\ ret.token \in DOMAIN oa.issued
    /\ oa.issued[ret.token] = 1
    /\ Exists(data, getCodeKey(ret.token), now)

\* C18: whatever the interleaving of the ExchangeCodeForToken calls, at most one
\* of them returns an access token for a given code.
C18_ExchangedOnce ==
    \A code \in DOMAIN oa.issued : oa.issued[code] <= 1

usable(refreshToken) == Get(data, getRefreshKey(refreshToken), now).err = ""

\* C19: a RefreshAccessToken with a refresh token that an earlier
\* RefreshAccessToken accepted fails, and no two refresh tokens that descend
\* from the same authorization code are usable in the same state.
C19_RefreshSingleUse ==
    [][/\ \A refreshToken \in oa.refreshed, clientID \in ClientArgs,
             clientSecret \in SecretArgs :
             RefreshAccessToken(refreshToken, clientID, clientSecret) => ret'.err # ""
       /\ \A r1, r2 \in DOMAIN oa'.grant :
             (r1 # r2 /\ oa'.grant[r1] = oa'.grant[r2])
                => ~(Get(data', getRefreshKey(r1), now').err = ""
                     /\ Get(data', getRefreshKey(r2), now').err = "")]_vars

\* the access token generated together with a refresh token
pairOf(refreshToken) ==
    CHOOSE a \in AccessTokens :
        \E n \in 1..oa.nextToken : a = AccessTokenValue(n) /\ refreshToken = RefreshTokenValue(n)

\* C20: a RefreshAccessToken(r1) by r1's client, while r1 and its access token a1
\* are both accepted, returns a new access token a2 # a1 stored with a new
\* refresh token r2 # r1 and with a1's UserID, ClientID and Scopes; after it
\* a2 validates and a1 does not, and the access token of a refresh token that was
\* accepted once never validates again.
C20_RefreshRotation ==
    [][/\ \A r1 \in RefreshTokens, clientID \in ClientArgs, clientSecret \in SecretArgs :
             /\ refreshErr(data, oa, r1, clientID, clientSecret, now) = ""
             /\ validateErr(data, pairOf(r1), now) = ""
             /\ RefreshAccessToken(r1, clientID, clientSecret)
             => LET a1 == Get(data, getOAuthTokenKey(pairOf(r1)), now).value
                    a2 == Get(data', getOAuthTokenKey(ret'.value), now').value
                IN  /\ ret'.err = ""
                    /\ validateErr(data', ret'.value, now') = ""
                    /\ a2.Token = ret'.value /\ a2.Token # a1.Token
                    /\ a2.RefreshToken # r1
                    /\ a2.RefreshToken \notin RefreshTokens
                    /\ Get(data', getRefreshKey(a2.RefreshToken), now').value = a2
                    /\ a2.UserID = a1.UserID
                    /\ a2.ClientID = a1.ClientID
                    /\ a2.Scopes = a1.Scopes
                    /\ validateErr(data', a1.Token, now') # ""
       /\ \A r \in oa'.refreshed :
             validateErr(data', CHOOSE a \in {AccessTokenValue(n) : n \in 1..oa'.nextToken} :
                                   \E n \in 1..oa'.nextToken :
                                       a = AccessTokenValue(n) /\ r = RefreshTokenValue(n),
                         now') # ""]_vars

\* a refresh has just returned a new pair and the old access token is gone
C20_Witness ==
    /\ ret.op = "RefreshAccessToken"
    /\ ret.err = ""
    /\ validateErr(data, ret.value, now) = ""
    /\ validateErr(data, pairOf(ret.token), now) # ""
    /\ usable(Get(data, getOAuthTokenKey(ret.value), now).value.RefreshToken)


\* the refresh token generated together with an access token
linked(accessToken) ==
    CHOOSE r \in {RefreshTokenValue(n) : n \in 0..MaxPairs + 1} :
        \E n \in 0..MaxPairs + 1 : accessToken = AccessTokenValue(n) /\ r = RefreshTokenValue(n)

C22_CodeOnlyForRegistered ==
    [][\A clientID \in ClientArgs, redirectURI \in RedirectArgs, userID \in UserIDs,
          scopes \in ScopeLists :
          GenerateAuthorizationCode(clientID, redirectURI, userID, scopes) =>
             IF clientID \in ClientIDs /\ redirectURI \in Client(clientID).RedirectURIs
             THEN /\ ret'.err = ""
                  /\ ret'.value = Code(oa.nextCode + 1)
                  /\ Exists(data', getCodeKey(ret'.value), now')
                  /\ data'[getCodeKey(ret'.value)].expiration = now + codeExpiration
                  /\ oa'.heap[ret'.value] =
                        AuthorizationCode(ret'.value, clientID, redirectURI, userID,
                                          scopes, now, oa)
             ELSE /\ ret'.err \in {"client not found", "invalid redirect_uri"}
                  /\ data' = data
                  /\ oa' = oa]_vars

\* a code has just been stored for a registered client and redirect URI
C22_Witness ==
    /\ ret.op = "GenerateAuthorizationCode"
    /\ ret.err = ""
    /\ Exists(data, getCodeKey(ret.value), now)
    /\ oa.heap[ret.value].RedirectURI \in oa.clients[oa.heap[ret.value].ClientID].RedirectURIs


\* ------------------------------------------------------------------ permission claims

\* the positions of the colons of a string, and its segments between them
colons(str) == {i \in 1..Len(str) : str[i] = ":"}
segments(str) == Cardinality(colons(str)) + 1
segment(str, k) ==
    LET before == {i \in colons(str) : Cardinality({j \in colons(str) : j < i}) = k - 2}
        after == {i \in colons(str) : Cardinality({j \in colons(str) : j < i}) = k - 1}
        from == IF before = {} THEN 1 ELSE (CHOOSE i \in before : TRUE) + 1
        to == IF after = {} THEN Len(str) ELSE (CHOOSE i \in after : TRUE) - 1
    IN  [i \in 1..(to - from + 1) |-> str[from + i - 1]]

\* the four ordered rules
rules(P, Q) ==
    IF P = <<"*">> \/ P = Q THEN TRUE
    ELSE IF Len(P) >= 2 /\ P[Len(P) - 1] = ":" /\ P[Len(P)] = "*"
         THEN /\ Len(Q) >= Len(P) - 1
              /\ \A i \in 1..(Len(P) - 1) : Q[i] = P[i]
    ELSE IF \E i \in 1..Len(P) : P[i] = "*"
         THEN /\ segments(P) = segments(Q)
              /\ \A k \in 1..segments(P) :
                    segment(P, k) # <<"*">> => segment(P, k) = segment(Q, k)
    ELSE FALSE

\* the patterns stored for a principal
stored(loginID) ==
    IF getSessionKey(loginID) \in DOMAIN data
       /\ "permissions" \in DOMAIN data[getSessionKey(loginID)].value.data
    THEN data[getSessionKey(loginID)].value.data["permissions"]
    ELSE <<>>

\* C23: HasPermission(L, Q) returns true exactly when one of the patterns stored
\* for L matches Q by the four ordered rules.
C23_MatcherRules ==
    ret.op = "HasPermission"
       => (ret.value = "true"
              <=> \E i \in DOMAIN stored(ret.loginID) : rules(stored(ret.loginID)[i], ret.token))

\* the pattern a:*:a has just been refused for a:a, whose number of segments differs
C23_Witness ==
    /\ ret.op = "HasPermission"
    /\ stored(ret.loginID) = <<<<"a", ":", "*", ":", "a">>>>
    /\ ret.token = <<"a", ":", "a">>
    /\ ret.value = "false"


\* the roles stored for a principal
storedRoles(loginID) ==
    IF getSessionKey(loginID) \in DOMAIN data
       /\ "roles" \in DOMAIN data[getSessionKey(loginID)].value.data
    THEN data[getSessionKey(loginID)].value.data["roles"]
    ELSE <<>>

\* what HasPermission and HasRole answer in this state
holds(loginID, Q) == \E i \in DOMAIN stored(loginID) : rules(stored(loginID)[i], Q)
hasRole(loginID, role) == \E i \in DOMAIN storedRoles(loginID) : storedRoles(loginID)[i] = role

\* C24: HasPermissionsAnd answers true exactly when HasPermission holds for every
\* element of the list, HasPermissionsOr exactly when it holds for some element;
\* HasRole answers true exactly when the role asked for equals a stored role, and
\* HasRolesAnd and HasRolesOr fold it in the same way.
C24_AndOrFold ==
    /\ ret.op = "HasPermissionsAnd"
          => (ret.value = "true" <=> \A i \in DOMAIN ret.token : holds(ret.loginID, ret.token[i]))
    /\ ret.op = "HasPermissionsOr"
          => (ret.value = "true" <=> \E i \in DOMAIN ret.token : holds(ret.loginID, ret.token[i]))
    /\ ret.op = "HasRole"
          => (ret.value = "true" <=> hasRole(ret.loginID, ret.token))
    /\ ret.op = "HasRolesAnd"
          => (ret.value = "true" <=> \A i \in DOMAIN ret.token : hasRole(ret.loginID, ret.token[i]))
    /\ ret.op = "HasRolesOr"
          => (ret.value = "true" <=> \E i \in DOMAIN ret.token : hasRole(ret.loginID, ret.token[i]))

\* a principal whose only role is * has just been refused the role admin
C24_Witness ==
    /\ ret.op = "HasRole"
    /\ storedRoles(ret.loginID) = <<"*">>
    /\ ret.token = "admin"
    /\ ret.value = "false"


\* ------------------------------------------------------------------ session claims

\* the attributes of a principal's stored Session
attributes(d, loginID) ==
    IF getSessionKey(loginID) \in DOMAIN d THEN d[getSessionKey(loginID)].value.data
    ELSE <<>>

\* C25: a Login(P, D) that succeeds leaves every attribute that P's Session held
\* before it, other than loginId, device and loginTime, in the Session with the
\* same value.
C25_LoginKeepsSession ==
    [][\A loginID \in LoginIDs, device \in Devices :
          (Login(loginID, device) /\ ret'.err = "")
             => \A key \in DOMAIN attributes(data, loginID) \ {"loginId", "device", "loginTime"} :
                   /\ key \in DOMAIN attributes(data', loginID)
                   /\ attributes(data', loginID)[key] = attributes(data, loginID)[key]]_vars


\* C26: once every call that sets an attribute of a principal's Session has
\* returned, the stored Session holds, for each key, the value the last returned
\* call wrote to it.
C26_BothUpdatesKept ==
    logins = EmptyBag
       => \A loginID \in LoginIDs, key \in DOMAIN hist :
             /\ key \in DOMAIN attributes(data, loginID)
             /\ attributes(data, loginID)[key] = hist[key]


\* ------------------------------------------------------------------ error claims

\* C27: a Login, Logout, LogoutByToken or Kickout during which a storage call
\* failed (its backend returned an error other than that the key is not there)
\* returns an error to its caller.
C27_StorageErrorsReturned ==
    (ret.op \in {"Login", "Logout", "LogoutByToken", "Kickout"} /\ DOMAIN hist # {})
       => ret.err # ""

\* ------------------------------------------------------------------ storage claims

\* the ttl of the Set that stored the key has run out
lapsed(key) ==
    key \in DOMAIN hist /\ hist[key].ttl > 0 /\ now > hist[key].at + hist[key].ttl

\* the key was stored last with ttl = 0 and not deleted since
lasting(key) == key \in DOMAIN hist /\ hist[key].ttl = 0

\* C28: a key stored with ttl > 0 is reported absent by Get, Exists and Keys at
\* every time after its expiry, whether or not cleanup has removed it; a key stored
\* with ttl = 0 is reported present until it is deleted; TTL returns -1 for a
\* present key without expiry and -2 for an absent or an expired key.
C28_ExpiredReportedAbsent ==
    /\ \A key \in KeyArgs :
          /\ lapsed(key) =>
                /\ Get(data, key, now).err # ""
                /\ ~Exists(data, key, now)
                /\ \A pattern \in KeyPatterns : key \notin Keys(data, pattern, now)
                /\ TTL(data, key, now).value = -2
          /\ lasting(key) =>
                /\ Get(data, key, now).err = ""
                /\ Exists(data, key, now)
                /\ key \in Keys(data, "*", now)
                /\ TTL(data, key, now).value = -1
          /\ key \notin DOMAIN hist => TTL(data, key, now).value = -2
    /\ (ret.op = "Get" /\ lapsed(ret.token)) => ret.err # ""
    /\ (ret.op = "Get" /\ lasting(ret.token)) => ret.err = ""
    /\ (ret.op = "Exists" /\ lapsed(ret.token)) => ret.value = "false"
    /\ (ret.op = "Exists" /\ lasting(ret.token)) => ret.value = "true"
    /\ ret.op = "Keys" => \A key \in KeyArgs : lapsed(key) => key \notin ret.value
    /\ (ret.op = "TTL" /\ lapsed(ret.token)) => ret.value = -2
    /\ (ret.op = "TTL" /\ lasting(ret.token)) => ret.value = -1
    /\ (ret.op = "TTL" /\ ret.token \notin DOMAIN hist) => ret.value = -2

\* Keys is asked while an expired key is still in the map
C28_Witness ==
    /\ ret.op = "Keys"
    /\ \E key \in KeyArgs : lapsed(key) /\ key \in DOMAIN data
    /\ \E key \in KeyArgs : lasting(key) /\ key \in ret.value

\* ------------------------------------------------------------------ login count claims

\* Config.IsShare and Config.MaxLoginCount as the application sets them; neither
\* the manager nor the storage reads either field.
IsShare == FALSE

MaxLoginCount == 1

\* the tokens of an account IsLogin would accept
liveTokens(loginID) ==
    {tok \in Issued :
        /\ TokenStatus(data, tok, now) = "valid"
        /\ getTokenInfo(data, tok, now).LoginID = loginID}

\* C29: with IsConcurrent = true and IsShare = false, an account never has more
\* than MaxLoginCount live tokens at once (MaxLoginCount other than -1).
C29_AtMostMaxLoginCount ==
    (config.IsConcurrent /\ ~IsShare /\ MaxLoginCount # -1) =>
        \A loginID \in LoginIDs : Cardinality(liveTokens(loginID)) <= MaxLoginCount

\* ------------------------------------------------------------------ activity claims

\* IsLogin has just returned true for the token at time t, with ActiveTimeout > 0
validatedAt(tok, t) ==
    /\ config.ActiveTimeout > 0
    /\ ret.op = "IsLogin" /\ ret.token = tok /\ ret.value = "true"
    /\ now = t

\* the token's ActiveTime is t or later, or the token is gone
activeSince(tok, t) ==
    LET info == getTokenInfo(data, tok, now)
    IN  info = Nil \/ info.ActiveTime >= t

\* C30: with ActiveTimeout > 0, an IsLogin(t) call that returns true leads to the
\* ActiveTime of t being brought up to the time of that call, for every setting of
\* AutoRenew and Timeout (unless t is removed first).
C30_ValidationUpdatesActiveTime ==
    \A tok \in {Token(n) : n \in 1..MaxTokens} : \A t \in 0..MaxTime :
        validatedAt(tok, t) ~> activeSince(tok, t)

\* ------------------------------------------------------------------ exchange claims

\* the errors of the checks on the caller's client, secret and redirect URI
callerErrors ==
    {"client not found", "invalid client credentials", "client mismatch",
     "redirect_uri mismatch"}

\* C31: an ExchangeCodeForToken call that fails on the client, the secret, the
\* client match or the redirect URI leaves the stored code as it was, unused; an
\* exchange of an unused code by its own client after CreateTime + ExpiresIn
\* fails with the expired error and deletes the code.
C31_FailedExchangeKeepsCode ==
    [][\A code \in Codes, clientID \in ClientArgs, clientSecret \in SecretArgs,
          redirectURI \in RedirectArgs :
          ExchangeCodeForToken(code, clientID, clientSecret, redirectURI)
          => /\ ret'.err \in callerErrors => (data' = data /\ oa'.heap = oa.heap)
             /\ (/\ validFor(code, clientID, clientSecret, redirectURI)
                 /\ ~oa.heap[code].Used
                 /\ now > oa.heap[code].CreateTime + oa.heap[code].ExpiresIn)
                => /\ ret'.err = "authorization code expired"
                   /\ getCodeKey(code) \notin DOMAIN data']_vars

\* ------------------------------------------------------------------ mapping claims

\* C32: whenever the token of the most recent Login(P,D) is live, the mapping of
\* (P,D) exists and names it (so that Logout(P,D) and Kickout(P,D) reach it), also
\* after renewals have kept the token alive beyond its Timeout.
C32_LiveTokenIsMapped ==
    \A loginID \in LoginIDs, device \in Devices :
        LET recent == Token(nextTok)
            info == getTokenInfo(data, recent, now)
        IN  (/\ nextTok >= 1
             /\ TokenStatus(data, recent, now) = "valid"
             /\ info.LoginID = loginID /\ info.Device = device)
            => mapped(data, loginID, device, now) = recent

\* ------------------------------------------------------------------ tag claims

\* C33: a tag written by SetTokenTag is not lost: what GetTokenTag(t) returns
\* changes only by a SetTokenTag(t, x) call, as long as t has a TokenInfo, in
\* every interleaving with the renewal goroutine.
C33_TagKept ==
    [][\A t \in Issued :
          LET old == GetTokenTagRet(data, t, now)
              new == GetTokenTagRet(data', t, now')
          IN  (/\ old.err = "" /\ new.err = ""
               /\ ~ \E tag \in Tags : SetTokenTag(t, tag) /\ UNCHANGED <<hist, nm, oa>>)
              => new.value = old.value]_vars

\* ------------------------------------------------------------------ failed Login claims

\* C34: a Login(P,D) that returns an error because the token generation or a
\* storage write failed leaves no TokenInfo and no mapping of its own behind and
\* has invalidated no token that was valid before the call.
C34_LoginAllOrNothing ==
    [][(ret'.op = "Login" /\ ret'.err \notin {"", "account is disabled"})
          => /\ getTokenInfo(data', Token(nextTok + 1), now') = Nil
             /\ mapped(data', ret'.loginID, ret'.device, now')
                    = mapped(data, ret'.loginID, ret'.device, now)
             /\ \A t \in Issued :
                    TokenStatus(data, t, now) = "valid"
                        => TokenStatus(data', t, now') = "valid"]_vars

\* C35: SetTokenTag(t, tag) on a token with a TokenInfo changes the Tag only:
\* LoginID, Device, CreateTime and ActiveTime stay and the expiry of the token's
\* entry is not moved later; on a token without TokenInfo it returns an error
\* and writes nothing.
C35_SetTokenTagFrame ==
    [][\A t \in Issued, tag \in Tags :
          LET key == getTokenKey(t)
              old == getTokenInfo(data, t, now)
              new == getTokenInfo(data', t, now')
          IN  SetTokenTag(t, tag)
              => IF old = Nil
                 THEN ret'.err # "" /\ data' = data
                 ELSE /\ ret'.err = ""
                      /\ new = [old EXCEPT !.Tag = tag]
                      /\ \A k \in DOMAIN data \ {key} : k \in DOMAIN data' /\ data'[k] = data[k]
                      /\ data'[key].expiration = data[key].expiration]_vars

\* ------------------------------------------------------------------ principal claims

\* C36: Logout(P,D) and Kickout(P,D) remove no TokenInfo whose LoginID is another
\* principal's, after any sequence of Login, LoginByToken, LogoutByToken, Kickout
\* and Logout calls.
C36_OnlyOwnTokens ==
    [][\A loginID \in QueryLoginIDs, device \in Devices :
          (Logout(loginID, device) \/ Kickout(loginID, device))
          => \A t \in Issued :
                LET old == getTokenInfo(data, t, now)
                IN  (old # Nil /\ old.LoginID # loginID)
                    => getTokenInfo(data', t, now') = old]_vars

\* ------------------------------------------------------------------ list claims

\* C37: every token GetTokenValueListByLoginID(P) returns is live and has a
\* TokenInfo whose LoginID is P, and GetSessionCountByLoginID(P) is the number of
\* live tokens of P, after any sequence of Login, Logout, LogoutByToken and
\* Kickout calls, for login IDs that may hold a colon.
C37_ListedTokensLive ==
    \A loginID \in ColonLoginIDs :
        LET tokens == GetTokenValueListByLoginIDRet(data, loginID, now)
        IN  /\ \A k \in DOMAIN tokens :
                  /\ TokenStatus(data, tokens[k], now) = "valid"
                  /\ getTokenInfo(data, tokens[k], now).LoginID = loginID
            /\ Cardinality(DOMAIN tokens) = Cardinality(liveTokens(loginID))

\* ------------------------------------------------------------------ Expire claims

\* C38: Expire(key, ttl) on a key that Exists reports absent (never set, deleted,
\* or expired and not yet removed by cleanup) returns an error and does not make
\* the key exist again.
C38_ExpireAbsentKey ==
    (ret.op = "Expire" /\ ret.value = "false")
        => (ret.err # "" /\ ~Exists(data, ret.token, now))

\* ------------------------------------------------------------------ scope claims

\* the scopes of a slice
scopeSet(scopes) == {scopes[i] : i \in 1..Len(scopes)}

\* C39: the scopes of every issued authorization code, and of every access token
\* derived from it by exchange or refresh, are among the Scopes registered for
\* the client it was issued to.
C39_ScopesWithinClient ==
    /\ \A code \in DOMAIN oa.heap :
          scopeSet(oa.heap[code].Scopes) \subseteq oa.clients[oa.heap[code].ClientID].Scopes
    /\ \A tokenString \in AccessTokens :
          LET r == Get(data, getOAuthTokenKey(tokenString), now)
          IN  r.err = "" =>
                scopeSet(r.value.Scopes) \subseteq oa.clients[r.value.ClientID].Scopes

\* ------------------------------------------------------------------ wildcard claims

\* P and Q have the same number of segments and agree on every segment of P
\* that is not *
segmentwise(P, Q) ==
    /\ segments(P) = segments(Q)
    /\ \A k \in 1..segments(P) : segment(P, k) = <<"*">> \/ segment(P, k) = segment(Q, k)

\* C40: a stored pattern matches every query that has as many segments as the
\* pattern and equals it on each segment that is not *, wherever the * stand
\* and however many there are.
C40_WildcardEverySegment ==
    (/\ ret.op = "HasPermission"
     /\ \E i \in DOMAIN stored(ret.loginID) : segmentwise(stored(ret.loginID)[i], ret.token))
        => ret.value = "true"

====
